---------------------------- MODULE Spec2Model ----------------------------
(***************************************************************************)
(* A model of the decision core of the WhatsApp news agent:                *)
(*   - IntentClassifier, ConversationMemory, MemoryEnabledWhatsAppBot      *)
(*     (src/selenium_test.py)                                              *)
(*   - NewsSearchAgent.parse_time_expression and                           *)
(*     search_and_summarize_time_aware (src/quantsearch.py)                *)
(*                                                                         *)
(* Text is a sequence of one-character strings, so that lower(), split(),  *)
(* strip(), substring tests and the regular expressions of the source are  *)
(* computed on characters.  A long fixed literal of the source (a canned   *)
(* response, a result header) is a single multi-character element, which  *)
(* TextLen counts with all its characters.                                 *)
(***************************************************************************)
EXTENDS Integers, Sequences, FiniteSets, TLC

(***************************************************************************)
(* The state of the program                                                *)
(***************************************************************************)
VARIABLES
    config_file,            \* what intent_config.json holds
    classifier,             \* intent_classifier: [intents, news_patterns, settings]
    max_context_messages,   \* ConversationMemory.max_context_messages (W)
    conversations,          \* the rows of table conversations, in rowid order
    conversation_context,   \* the rows of table conversation_context, by contact
    current_conversations,  \* ConversationMemory.current_conversations
    preferences,            \* UserPreferences.preferences
    clock,                  \* the reading of datetime.now(), in hours
    last                    \* the last call made and what it returned

vars == <<config_file, classifier, max_context_messages, conversations,
          conversation_context, current_conversations, preferences, clock, last>>

(***************************************************************************)
(* Characters and Python's str methods                                     *)
(***************************************************************************)
UpperChars == <<"A","B","C","D","E","F","G","H","I","J","K","L","M",
                "N","O","P","Q","R","S","T","U","V","W","X","Y","Z">>
LowerChars == <<"a","b","c","d","e","f","g","h","i","j","k","l","m",
                "n","o","p","q","r","s","t","u","v","w","x","y","z">>
DigitChars == <<"0","1","2","3","4","5","6","7","8","9">>

Range(f) == {f[i] : i \in DOMAIN f}
UpperSet == Range(UpperChars)
DigitSet == Range(DigitChars)
\* \w of the re module: a letter, a digit or the underscore
WordChars == Range(LowerChars) \cup Range(UpperChars) \cup Range(DigitChars) \cup {"_"}

IsUpper(c) == c \in UpperSet
IsDigit(c) == c \in DigitSet
IsWordChar(c) == c \in WordChars
\* \s of the re module, and the characters str.split() and str.strip() drop
IsSpace(c) == c \in {" ", "\n", "\t"}

LowerChar(c) == IF IsUpper(c) THEN LowerChars[CHOOSE i \in 1..26 : UpperChars[i] = c] ELSE c
\* str.lower()
Lower(s) == [i \in 1..Len(s) |-> LowerChar(s[i])]
DigitValue(c) == (CHOOSE i \in 1..10 : DigitChars[i] = c) - 1

Slice(s, a, b) == IF a > b THEN <<>> ELSE SubSeq(s, a, b)

\* s[i:].startswith(p), i counted from 1
HasPrefixAt(s, i, p) == /\ i + Len(p) - 1 <= Len(s)
                        /\ \A j \in 1..Len(p) : s[i + j - 1] = p[j]
\* Python's  p in s
Contains(s, p) == \E i \in 1..(Len(s) + 1) : HasPrefixAt(s, i, p)
StartsWith(s, p) == HasPrefixAt(s, 1, p)
EndsWith(s, p) == Len(p) <= Len(s) /\ HasPrefixAt(s, Len(s) - Len(p) + 1, p)

\* str.strip()
Strip(s) == LET keep == {i \in 1..Len(s) : ~IsSpace(s[i])}
            IN  IF keep = {} THEN <<>>
                ELSE Slice(s, CHOOSE i \in keep : \A j \in keep : i <= j,
                              CHOOSE i \in keep : \A j \in keep : j <= i)

\* str.split(): the maximal runs of non-whitespace, in order
RECURSIVE SplitFrom(_, _)
SplitFrom(s, i) ==
    IF i > Len(s) THEN <<>>
    ELSE IF IsSpace(s[i]) THEN SplitFrom(s, i + 1)
    ELSE LET stop == CHOOSE j \in i..Len(s) :
                        /\ \A k \in i..j : ~IsSpace(s[k])
                        /\ (j = Len(s) \/ IsSpace(s[j + 1]))
         IN  <<Slice(s, i, stop)>> \o SplitFrom(s, stop + 1)
Split(s) == SplitFrom(s, 1)

\* sep.join(parts)
RECURSIVE Join(_, _)
Join(sep, parts) == IF parts = <<>> THEN <<>>
                    ELSE IF Len(parts) = 1 THEN parts[1]
                    ELSE parts[1] \o sep \o Join(sep, Tail(parts))

RECURSIVE SumSeq(_)
SumSeq(q) == IF q = <<>> THEN 0 ELSE Head(q) + SumSeq(Tail(q))

(***************************************************************************)
(* The regular expressions of the source.  A pattern is a sequence of      *)
(* elements [k, alts]:                                                     *)
(*   "wb"  \b            "ws"  \s+           "w"   \w+                    *)
(*   "alt" an ordered alternation of literals (a literal: one alternative) *)
(*   "dig" \d{1,2}       "opt" (?:a|b|...)?                                *)
(*   "("   ")"  the start and the end of a capturing group                 *)
(* and the pattern "bad" stands for one that does not compile (re.error).  *)
(* A match is what the backtracking matcher of re finds first: greedy      *)
(* repetition, alternatives in order.  It is [ok, s, e, caps]: the match   *)
(* is s[s..e-1], caps the positions where the groups open and close.       *)
(***************************************************************************)
El(k) == [k |-> k, alts |-> <<>>]
WB == El("wb")
WS == El("ws")
WordRun == El("w")
Dig12 == El("dig")
GOpen == El("(")
GClose == El(")")
Alt(alts) == [k |-> "alt", alts |-> alts]
Lit(s) == [k |-> "alt", alts |-> <<s>>]
Opt(alts) == [k |-> "opt", alts |-> alts]
BadPattern == <<El("bad")>>

NoMatch == [ok |-> FALSE, s |-> 0, e |-> 0, caps |-> <<>>]
\* the first of two attempts that matched
OrElse(r, other) == IF r.ok THEN r ELSE other

\* \b at the gap before s[i]
IsBoundary(s, i) ==
    (i > 1 /\ i - 1 <= Len(s) /\ IsWordChar(s[i - 1])) # (i <= Len(s) /\ IsWordChar(s[i]))

\* the length of the longest run of whitespace (space) or of word characters at s[i..]
RunLen(s, i, space) ==
    LET ends == {j \in (i - 1)..Len(s) :
                    \A k \in i..j : IF space THEN IsSpace(s[k]) ELSE IsWordChar(s[k])}
    IN  (CHOOSE j \in ends : \A k \in ends : k <= j) - (i - 1)

\* characters compared as re does: folded when ic (re.IGNORECASE)
LitAt(s, i, p, ic) ==
    IF ic THEN /\ i + Len(p) - 1 <= Len(s)
               /\ \A j \in 1..Len(p) : LowerChar(s[i + j - 1]) = LowerChar(p[j])
    ELSE HasPrefixAt(s, i, p)

\* how many digits \d{1,2} can take at s[i..]
DigitsAt(s, i) == IF i <= Len(s) /\ IsDigit(s[i])
                  THEN (IF i + 1 <= Len(s) /\ IsDigit(s[i + 1]) THEN 2 ELSE 1)
                  ELSE 0

RECURSIVE MatchFrom(_, _, _, _, _, _), TryAlts(_, _, _, _, _, _, _), TryLens(_, _, _, _, _, _, _)
\* pattern pat from element k on, at position i of s; caps: the group positions so far
MatchFrom(pat, k, s, i, caps, ic) ==
    IF k > Len(pat) THEN [ok |-> TRUE, s |-> 0, e |-> i, caps |-> caps]
    ELSE CASE pat[k].k = "wb"  -> IF IsBoundary(s, i) THEN MatchFrom(pat, k + 1, s, i, caps, ic)
                                  ELSE NoMatch
           [] pat[k].k \in {"(", ")"} -> MatchFrom(pat, k + 1, s, i, Append(caps, i), ic)
           [] pat[k].k = "alt" -> TryAlts(pat, k, s, i, caps, ic, 1)
           [] pat[k].k = "opt" -> OrElse(TryAlts(pat, k, s, i, caps, ic, 1),
                                         MatchFrom(pat, k + 1, s, i, caps, ic))
           [] pat[k].k \in {"ws", "w"} ->
                  TryLens(pat, k, s, i, caps, ic, RunLen(s, i, pat[k].k = "ws"))
           [] pat[k].k = "dig" -> TryLens(pat, k, s, i, caps, ic, DigitsAt(s, i))
           [] OTHER -> NoMatch
\* the alternatives of element k, from the a-th on, in order
TryAlts(pat, k, s, i, caps, ic, a) ==
    IF a > Len(pat[k].alts) THEN NoMatch
    ELSE OrElse(IF LitAt(s, i, pat[k].alts[a], ic)
                THEN MatchFrom(pat, k + 1, s, i + Len(pat[k].alts[a]), caps, ic)
                ELSE NoMatch,
                TryAlts(pat, k, s, i, caps, ic, a + 1))
\* a greedy repetition that may take n characters, then n-1, ..., then 1
TryLens(pat, k, s, i, caps, ic, n) ==
    IF n < 1 THEN NoMatch
    ELSE OrElse(MatchFrom(pat, k + 1, s, i + n, caps, ic), TryLens(pat, k, s, i, caps, ic, n - 1))

IsBad(pat) == \E k \in 1..Len(pat) : pat[k].k = "bad"

\* the least element of a set of numbers
Minimum(S) == CHOOSE x \in S : \A y \in S : x <= y

\* re.search(pat, s[from-1:]): the leftmost match starting at from or later;
\* start is the leftmost position where the pattern matches (past the end: none)
MatchAt(pat, s, start, ic) ==
    IF start > Len(s) + 1 THEN NoMatch
    ELSE [MatchFrom(pat, 1, s, start, <<>>, ic) EXCEPT !.s = start]
SearchFrom(pat, s, from, ic) ==
    MatchAt(pat, s,
            Minimum({f \in from..(Len(s) + 1) : MatchFrom(pat, 1, s, f, <<>>, ic).ok}
                    \cup {Len(s) + 2}),
            ic)
Search(pat, s, ic) == SearchFrom(pat, s, 1, ic)

\* the text of group g of match r
Group(s, r, g) == Slice(s, r.caps[2 * g - 1], r.caps[2 * g] - 1)
NumGroups(pat) == Cardinality({k \in 1..Len(pat) : pat[k].k = "("})

\* the matches re.finditer yields: leftmost, non-overlapping
RECURSIVE FindIter(_, _, _, _), FindIterAfter(_, _, _, _)
FindIter(pat, s, from, ic) == FindIterAfter(pat, s, ic, SearchFrom(pat, s, from, ic))
FindIterAfter(pat, s, ic, r) ==
    IF ~r.ok THEN <<>>
    ELSE <<r>> \o FindIter(pat, s, IF r.e > r.s THEN r.e ELSE r.e + 1, ic)

\* re.sub(pat, repl, s), repl being '' (keep = 0) or the backreference \keep
RECURSIVE SubFrom(_, _, _, _, _), SubAfter(_, _, _, _, _, _)
SubFrom(pat, s, from, ic, keep) == SubAfter(pat, s, from, ic, keep, SearchFrom(pat, s, from, ic))
SubAfter(pat, s, from, ic, keep, r) ==
    IF ~r.ok THEN Slice(s, from, Len(s))
    ELSE Slice(s, from, r.s - 1)
         \o (IF keep = 0 THEN <<>> ELSE Group(s, r, keep))
         \o (IF r.e > r.s THEN SubFrom(pat, s, r.e, ic, keep)
             ELSE Slice(s, r.e, r.e) \o SubFrom(pat, s, r.e + 1, ic, keep))
Sub(pat, s, ic, keep) == SubFrom(pat, s, 1, ic, keep)

(***************************************************************************)
(* datetime: a date is its proleptic Gregorian ordinal (date.toordinal()), *)
(* so that timedelta(days=n) is integer addition.                          *)
(***************************************************************************)
IsLeap(y) == (y % 4 = 0) /\ ((y % 100 # 0) \/ (y % 400 = 0))
DaysInMonth(y, m) == IF m = 2 THEN (IF IsLeap(y) THEN 29 ELSE 28)
                     ELSE IF m \in {4, 6, 9, 11} THEN 30 ELSE 31
DaysBeforeYear(y) == (y - 1) * 365 + ((y - 1) \div 4) - ((y - 1) \div 100) + ((y - 1) \div 400)
RECURSIVE DaysBeforeMonth(_, _)
DaysBeforeMonth(y, m) == IF m = 1 THEN 0 ELSE DaysBeforeMonth(y, m - 1) + DaysInMonth(y, m - 1)
ValidDate(y, m, d) == m \in 1..12 /\ d >= 1 /\ d <= DaysInMonth(y, m)
ToOrdinal(y, m, d) == DaysBeforeYear(y) + DaysBeforeMonth(y, m) + d
YearOf(n) == CHOOSE y \in ((n \div 366) + 1)..((n \div 365) + 1) :
                DaysBeforeYear(y) < n /\ n <= DaysBeforeYear(y + 1)
\* the month in which day number n of year y falls
MonthIn(y, n) == CHOOSE m \in 1..12 : /\ ToOrdinal(y, m, 1) <= n
                                      /\ n < ToOrdinal(y, m, 1) + DaysInMonth(y, m)
MonthOf(n) == MonthIn(YearOf(n), n)
\* date.fromordinal(n) as [y, m, d]
DateIn(y, m, n) == [y |-> y, m |-> m, d |-> n - ToOrdinal(y, m, 1) + 1]
DateInYear(y, n) == DateIn(y, MonthIn(y, n), n)
FromOrdinal(n) == DateInYear(YearOf(n), n)
DayOf(n) == FromOrdinal(n).d
\* datetime.weekday(): Monday is 0
Weekday(n) == (n + 6) % 7

Digit(v) == DigitChars[v + 1]
\* strftime('%Y-%m-%d')
FormatYmd(t) ==
    <<Digit(t.y \div 1000), Digit((t.y \div 100) % 10), Digit((t.y \div 10) % 10), Digit(t.y % 10),
      "-", Digit(t.m \div 10), Digit(t.m % 10), "-", Digit(t.d \div 10), Digit(t.d % 10)>>
StrfYmd(n) == FormatYmd(FromOrdinal(n))

\* Python's None where a text is expected
None == <<"<None>">>

MonthNames == <<
    <<"j","a","n","u","a","r","y">>, <<"f","e","b","r","u","a","r","y">>,
    <<"m","a","r","c","h">>, <<"a","p","r","i","l">>, <<"m","a","y">>, <<"j","u","n","e">>,
    <<"j","u","l","y">>, <<"a","u","g","u","s","t">>, <<"s","e","p","t","e","m","b","e","r">>,
    <<"o","c","t","o","b","e","r">>, <<"n","o","v","e","m","b","e","r">>,
    <<"d","e","c","e","m","b","e","r">> >>

\* datetime.strptime(s, "%d %B"): the day (one or two digits, 1..31, a leading
\* space allowed before one digit), whitespace, a full month name in any case,
\* and nothing after it; the date must exist in the default year 1900.
StrptimeFail == [ok |-> FALSE, m |-> 0, d |-> 0]
\* the month name and the day, once split
StrptimeMonth(name, d) ==
    IF \E m \in 1..12 : MonthNames[m] = name /\ ValidDate(1900, m, d)
    THEN [ok |-> TRUE, m |-> CHOOSE m \in 1..12 : MonthNames[m] = name, d |-> d]
    ELSE StrptimeFail
\* the day d took the first dlen characters of s
StrptimeRest(s, dlen, d) ==
    IF RunLen(s, dlen + 1, TRUE) >= 1
    THEN StrptimeMonth(Lower(Slice(s, dlen + RunLen(s, dlen + 1, TRUE) + 1, Len(s))), d)
    ELSE StrptimeFail
StrptimeDayMonth(s) ==
    OrElse(IF Len(s) >= 2 /\ IsDigit(s[1]) /\ IsDigit(s[2])
              /\ DigitValue(s[1]) * 10 + DigitValue(s[2]) \in 1..31
           THEN StrptimeRest(s, 2, DigitValue(s[1]) * 10 + DigitValue(s[2]))
           ELSE StrptimeFail,
    OrElse(IF Len(s) >= 1 /\ IsDigit(s[1]) /\ DigitValue(s[1]) >= 1
           THEN StrptimeRest(s, 1, DigitValue(s[1]))
           ELSE StrptimeFail,
           IF Len(s) >= 2 /\ s[1] = " " /\ IsDigit(s[2]) /\ DigitValue(s[2]) >= 1
           THEN StrptimeRest(s, 2, DigitValue(s[2]))
           ELSE StrptimeFail))

weekdays == <<
    <<"m","o","n","d","a","y">>, <<"t","u","e","s","d","a","y">>,
    <<"w","e","d","n","e","s","d","a","y">>, <<"t","h","u","r","s","d","a","y">>,
    <<"f","r","i","d","a","y">>, <<"s","a","t","u","r","d","a","y">>, <<"s","u","n","d","a","y">> >>

OrdinalSuffixes == << <<"s","t">>, <<"n","d">>, <<"r","d">>, <<"t","h">> >>
\* r'(\d{1,2})(st|nd|rd|th)'
ordinal_pattern == <<GOpen, Dig12, GClose, GOpen, Alt(OrdinalSuffixes), GClose>>
\* r'last\s+(\w+)'
weekday_pattern == <<Lit(<<"l","a","s","t">>), WS, GOpen, WordRun, GClose>>

\* days_back of _parse_relative_date
DaysBack(current_weekday, target_weekday) ==
    IF (current_weekday - target_weekday) % 7 = 0 THEN 7
    ELSE (current_weekday - target_weekday) % 7

\* the date _parse_relative_date settles on: parsed is what strptime made of
\* the text, weekday_name the word after 'last' (None without a match)
ResolveDate(parsed, weekday_name, reference_date) ==
    IF parsed.ok THEN ToOrdinal(YearOf(reference_date), parsed.m, parsed.d)
    ELSE IF \E i \in 1..7 : weekdays[i] = weekday_name
    THEN reference_date
         - DaysBack(Weekday(reference_date), (CHOOSE i \in 1..7 : weekdays[i] = weekday_name) - 1)
    ELSE reference_date

\* match.group(1) of the weekday pattern, None without a match
WeekdayName(text, match) == IF match.ok THEN Group(text, match, 1) ELSE None

\* _parse_relative_date once the ordinal suffixes are removed
ParseStripped(stripped, reference_date) ==
    StrfYmd(ResolveDate(StrptimeDayMonth(stripped),
                        WeekdayName(Lower(stripped), Search(weekday_pattern, Lower(stripped), FALSE)),
                        reference_date))

\* NewsSearchAgent._parse_relative_date(date_str, reference_date)
_parse_relative_date(date_str, reference_date) ==
    ParseStripped(Sub(ordinal_pattern, date_str, FALSE, 1), reference_date)

\* r'\b(a|b)\b'
PhrasePattern(alts) == <<WB, GOpen, Alt(alts), GClose, WB>>

\* a timedelta one day short
DaysBeforeShort(now, days) == now - days + 1
\* now - timedelta(days=days)
DaysBefore(now, days) == now - days

\* the dict time_patterns, in its declaration order: the pattern and the
\* (start, end) pair it stands for
time_patterns(now) == <<
    [p |-> PhrasePattern(<< <<"y","e","s","t","e","r","d","a","y">>,
                            <<"y","e","s","t","e","r","d","a","y","'","s">> >>),
     start |-> DaysBefore(now, 1), end |-> DaysBefore(now, 1)],
    [p |-> PhrasePattern(<< <<"t","o","d","a","y">>, <<"t","o","d","a","y","'","s">> >>),
     start |-> now, end |-> now],
    [p |-> PhrasePattern(<< <<"l","a","s","t"," ","w","e","e","k">>,
                            <<"p","a","s","t"," ","w","e","e","k">> >>),
     start |-> DaysBefore(now, 7), end |-> now],
    [p |-> PhrasePattern(<< <<"t","h","i","s"," ","w","e","e","k">> >>),
     start |-> DaysBefore(now, Weekday(now)), end |-> now],
    [p |-> PhrasePattern(<< <<"l","a","s","t"," ","m","o","n","t","h">>,
                            <<"p","a","s","t"," ","m","o","n","t","h">> >>),
     start |-> DaysBefore(now, 30), end |-> now],
    [p |-> PhrasePattern(<< <<"t","h","i","s"," ","m","o","n","t","h">> >>),
     start |-> ToOrdinal(YearOf(now), MonthOf(now), 1), end |-> now],
    [p |-> PhrasePattern(<< <<"l","a","s","t"," ","y","e","a","r">>,
                            <<"p","a","s","t"," ","y","e","a","r">> >>),
     start |-> DaysBefore(now, 365), end |-> now],
    [p |-> PhrasePattern(<< <<"t","h","i","s"," ","y","e","a","r">> >>),
     start |-> ToOrdinal(YearOf(now), 1, 1), end |-> now],
    [p |-> PhrasePattern(<< <<"l","a","s","t"," ","3"," ","d","a","y","s">>,
                            <<"p","a","s","t"," ","3"," ","d","a","y","s">> >>),
     start |-> DaysBefore(now, 3), end |-> now],
    [p |-> PhrasePattern(<< <<"l","a","s","t"," ","7"," ","d","a","y","s">>,
                            <<"p","a","s","t"," ","7"," ","d","a","y","s">> >>),
     start |-> DaysBefore(now, 7), end |-> now],
    [p |-> PhrasePattern(<< <<"l","a","s","t"," ","3","0"," ","d","a","y","s">>,
                            <<"p","a","s","t"," ","3","0"," ","d","a","y","s">> >>),
     start |-> DaysBefore(now, 30), end |-> now],
    [p |-> PhrasePattern(<< <<"l","a","s","t"," ","2"," ","w","e","e","k","s">>,
                            <<"p","a","s","t"," ","2"," ","w","e","e","k","s">> >>),
     start |-> DaysBefore(now, 14), end |-> now],
    [p |-> PhrasePattern(<< <<"l","a","s","t"," ","3"," ","w","e","e","k","s">>,
                            <<"p","a","s","t"," ","3"," ","w","e","e","k","s">> >>),
     start |-> DaysBefore(now, 21), end |-> now] >>

\* r'\bfrom\s+(\d{1,2}(?:st|nd|rd|th)?\s+\w+)\s+to\s+(\d{1,2}(?:st|nd|rd|th)?\s+\w+)\b'
date_range_pattern ==
    <<WB, Lit(<<"f","r","o","m">>), WS,
      GOpen, Dig12, Opt(OrdinalSuffixes), WS, WordRun, GClose,
      WS, Lit(<<"t","o">>), WS,
      GOpen, Dig12, Opt(OrdinalSuffixes), WS, WordRun, GClose, WB>>


\* the first entry of time_patterns, from the k-th on, that re.search finds in
\* the text, or 0
RECURSIVE FirstTimePattern(_, _, _)
FirstTimePattern(text, tp, k) ==
    IF k > Len(tp) THEN 0
    ELSE IF Search(tp[k].p, text, FALSE).ok THEN k
    ELSE FirstTimePattern(text, tp, k + 1)

\* the loop over time_patterns: the k-th pattern matched (none: k = 0)
RelativeRange(query, tp, k) ==
    IF k = 0
    THEN [cleaned_query |-> query, start_date |-> None, end_date |-> None]
    ELSE [cleaned_query |-> Strip(Sub(tp[k].p, query, FALSE, 0)),
          start_date |-> StrfYmd(tp[k].start),
          end_date |-> StrfYmd(tp[k].end)]

\* the absolute range, tried on what the loop left: match is what
\* re.search(date_range_pattern, query) found
AbsoluteRange(rel, match, now) ==
    IF match.ok
    THEN [cleaned_query |-> Strip(Sub(date_range_pattern, rel.cleaned_query, FALSE, 0)),
          start_date |-> _parse_relative_date(Group(rel.cleaned_query, match, 1), now),
          end_date |-> _parse_relative_date(Group(rel.cleaned_query, match, 2), now)]
    ELSE rel

ParseRelative(query, tp) == RelativeRange(query, tp, FirstTimePattern(query, tp, 1))
ParseAbsolute(rel, now) ==
    AbsoluteRange(rel, Search(date_range_pattern, rel.cleaned_query, FALSE), now)

\* NewsSearchAgent.parse_time_expression(query), now being datetime.now()
parse_time_expression(query, now) ==
    ParseAbsolute(ParseRelative(Lower(query), time_patterns(now)), now)

(***************************************************************************)
(* Scores.  The floats of the classifier are exact fractions [n, d] in     *)
(* lowest terms; the weights and thresholds of the configuration are in    *)
(* thousandths (0.7 is 700).                                               *)
(***************************************************************************)
RECURSIVE Gcd(_, _)
Gcd(a, b) == IF b = 0 THEN a ELSE Gcd(b, a % b)
Frac(n, d) == IF n = 0 THEN [n |-> 0, d |-> 1]
              ELSE [n |-> n \div Gcd(n, d), d |-> d \div Gcd(n, d)]
Zero == [n |-> 0, d |-> 1]
One == [n |-> 1, d |-> 1]
FAdd(a, b) == Frac(a.n * b.d + b.n * a.d, a.d * b.d)
\* a * (w / 1000)
FScale(a, w) == Frac(a.n * w, a.d * 1000)
FLess(a, b) == a.n * b.d < b.n * a.d
FLeq(a, b) == a.n * b.d <= b.n * a.d
FMax(a, b) == IF FLess(a, b) THEN b ELSE a
FMin(a, b) == IF FLess(b, a) THEN b ELSE a
\* a >= t / 1000
FAtLeast(a, t) == a.n * 1000 >= t * a.d

(***************************************************************************)
(* difflib.SequenceMatcher(None, a, b).ratio(): twice the number of        *)
(* characters in the matching blocks over the total length.  The blocks    *)
(* are found by taking the longest common block (the earliest in a, then   *)
(* the earliest in b) and recursing to its left and to its right.          *)
(***************************************************************************)
\* the length of the common run of a[i..ahi] and b[j..bhi]
CommonRun(a, b, i, j, ahi, bhi) ==
    IF a[i] # b[j] THEN 0
    ELSE LET lens == {k \in 1..(ahi - i + 1) :
                         /\ j + k - 1 <= bhi
                         /\ \A t \in 1..(k - 1) : a[i + t] = b[j + t]}
         IN  CHOOSE k \in lens : \A l \in lens : l <= k

\* the longest common run any pair of positions starts
LongestRun(a, b, alo, ahi, blo, bhi) ==
    LET runs == {CommonRun(a, b, i, j, ahi, bhi) : i \in alo..ahi, j \in blo..bhi}
    IN  CHOOSE k \in runs : \A l \in runs : l <= k

\* the block of length k that starts earliest in a, then earliest in b
EarliestRun(a, b, alo, ahi, blo, bhi, k) ==
    IF k = 0 THEN [i |-> alo, j |-> blo, k |-> 0]
    ELSE LET at == {<<i, j>> \in (alo..ahi) \X (blo..bhi) :
                        /\ i + k - 1 <= ahi /\ j + k - 1 <= bhi
                        /\ \A t \in 0..(k - 1) : a[i + t] = b[j + t]}
             c == CHOOSE c \in at : \A e \in at : c[1] < e[1] \/ (c[1] = e[1] /\ c[2] <= e[2])
         IN  [i |-> c[1], j |-> c[2], k |-> k]

find_longest_match(a, b, alo, ahi, blo, bhi) ==
    EarliestRun(a, b, alo, ahi, blo, bhi, LongestRun(a, b, alo, ahi, blo, bhi))

RECURSIVE MatchingChars(_, _, _, _, _, _), MatchingAround(_, _, _, _, _, _, _)
MatchingChars(a, b, alo, ahi, blo, bhi) ==
    IF alo > ahi \/ blo > bhi THEN 0
    ELSE MatchingAround(a, b, alo, ahi, blo, bhi, find_longest_match(a, b, alo, ahi, blo, bhi))
\* the block m, and the matching blocks to its left and to its right
MatchingAround(a, b, alo, ahi, blo, bhi, m) ==
    IF m.k = 0 THEN 0
    ELSE m.k + MatchingChars(a, b, alo, m.i - 1, blo, m.j - 1)
             + MatchingChars(a, b, m.i + m.k, ahi, m.j + m.k, bhi)

ratio(a, b) == IF Len(a) + Len(b) = 0 THEN One
               ELSE Frac(2 * MatchingChars(a, b, 1, Len(a), 1, Len(b)), Len(a) + Len(b))

(***************************************************************************)
(* IntentClassifier.  A configuration is [intents, news_patterns,          *)
(* settings]: intents is the dict of the source as the sequence of its     *)
(* (name, intent_config) items in declaration order, intent_config and     *)
(* settings are dicts (functions whose domain is the keys present).        *)
(***************************************************************************)
\* dict.get(key, default)
Get(dict, key, default) == IF key \in DOMAIN dict THEN dict[key] ELSE default

\* len(match) for the elements re.findall returns: the whole match without a
\* group, the group's text with one group, a tuple of the groups with more
MatchLens(ms, groups, message) ==
    [i \in 1..Len(ms) |->
        IF groups = 0 THEN ms[i].e - ms[i].s
        ELSE IF groups = 1 THEN Len(Group(message, ms[i], 1))
        ELSE groups]
FindallLens(pattern, message) ==
    MatchLens(FindIter(pattern, message, 1, TRUE), NumGroups(pattern), message)

\* the score of one pattern: lens are the lengths of its matches
PatternScore(lens, message) ==
    IF Len(lens) = 0 THEN Zero
    ELSE FMin(One, FScale(Frac(SumSeq(lens), Len(message)), 2000))

\* the greatest of a set of scores
MaxScore(S) == CHOOSE x \in S : \A y \in S : FLeq(y, x)

\* IntentClassifier._pattern_match_score(message, patterns): the greatest
\* score of a pattern that compiles and matches, 0.0 without one
_pattern_match_score(message, patterns) ==
    MaxScore({Zero} \cup
             {PatternScore(FindallLens(patterns[i], message), message) :
                 i \in {j \in 1..Len(patterns) : ~IsBad(patterns[j])}})

\* a similarity counts when it is at or above the threshold
Counted(similarity, fuzzy_threshold) ==
    IF FAtLeast(similarity, fuzzy_threshold) THEN similarity ELSE Zero

\* best_keyword_score of a word
BestKeywordScore(word, keywords, fuzzy_threshold) ==
    MaxScore({Zero} \cup
             {Counted(ratio(word, keywords[i]), fuzzy_threshold) : i \in 1..Len(keywords)})

RECURSIVE KeywordTotal(_, _, _, _)
KeywordTotal(words, keywords, fuzzy_threshold, i) ==
    IF i > Len(words) THEN Zero
    ELSE FAdd(BestKeywordScore(words[i], keywords, fuzzy_threshold),
              KeywordTotal(words, keywords, fuzzy_threshold, i + 1))

\* total_score / len(words)
KeywordAverage(total, count) == IF count = 0 THEN Zero ELSE Frac(total.n, total.d * count)

\* IntentClassifier._keyword_match_score(message, keywords)
_keyword_match_score(settings, message, keywords) ==
    KeywordAverage(KeywordTotal(Split(message), keywords,
                                Get(settings, "fuzzy_match_threshold", 800), 1),
                   Len(Split(message)))

\* IntentClassifier._calculate_intent_score(message, intent_config)
_calculate_intent_score(settings, message, intent_config) ==
    FAdd(FScale(_pattern_match_score(message, intent_config["patterns"]),
                Get(settings, "pattern_weight", 700)),
         FScale(_keyword_match_score(settings, message, intent_config["keywords"]),
                Get(settings, "keyword_weight", 300)))

\* intent_config.get('threshold', self.settings.get('default_threshold', 0.5))
ThresholdOf(settings, intent_config) ==
    Get(intent_config, "threshold", Get(settings, "default_threshold", 500))

NoIntent == "None"

\* a turn that replaces the best so far on an equal score too (>= for >):
\* the loop the tie rule of classify_intent is told from
BetterOrEqual(best, intent_name, score, threshold) ==
    IF FLeq(best.score, score) /\ FAtLeast(score, threshold)
    THEN [intent |-> intent_name, score |-> score]
    ELSE best

\* one turn of the loop of classify_intent: the intent replaces the best so
\* far when its score is greater and reaches the threshold
Better(best, intent_name, score, threshold) ==
    IF FLess(best.score, score) /\ FAtLeast(score, threshold)
    THEN [intent |-> intent_name, score |-> score]
    ELSE best

\* the loop of classify_intent over self.intents.items(), from item i on
RECURSIVE ClassifyFrom(_, _, _, _)
ClassifyFrom(cfg, message_lower, i, best) ==
    IF i > Len(cfg.intents) THEN best
    ELSE ClassifyFrom(cfg, message_lower, i + 1,
            Better(best, cfg.intents[i].name,
                   _calculate_intent_score(cfg.settings, message_lower, cfg.intents[i].config),
                   ThresholdOf(cfg.settings, cfg.intents[i].config)))

\* a classifier that answers with the intent of the call before when that
\* call found one: the dependence on history classify_intent is told from
classify_intent_sticky(cfg, message) ==
    IF last.op = "classify_intent" /\ last.call.result.intent # NoIntent
    THEN last.call.result
    ELSE ClassifyFrom(cfg, Strip(Lower(message)), 1, [intent |-> NoIntent, score |-> Zero])

\* IntentClassifier.classify_intent(message), self being cfg
classify_intent(cfg, message) ==
    IF Strip(message) = <<>> THEN [intent |-> NoIntent, score |-> Zero]
    ELSE ClassifyFrom(cfg, Strip(Lower(message)), 1, [intent |-> NoIntent, score |-> Zero])

\* IntentClassifier.is_news_pattern(message)
is_news_pattern(cfg, message) ==
    \E i \in 1..Len(cfg.news_patterns) :
        /\ ~IsBad(cfg.news_patterns[i])
        /\ Search(cfg.news_patterns[i], Lower(message), TRUE).ok

\* IntentClassifier._load_default_config: self.intents
default_intents == <<
    [name |-> "date_request", config |->
       "patterns" :> <<
          \* r'\b(what|when|tell me|give me|show me|what\'s|what is)\s+(day|date|today|now)\b'
          <<WB, GOpen, Alt(<<<<"w","h","a","t">>, <<"w","h","e","n">>, <<"t","e","l","l"," ","m","e">>, <<"g","i","v","e"," ","m","e">>, <<"s","h","o","w"," ","m","e">>, <<"w","h","a","t","'","s">>, <<"w","h","a","t"," ","i","s">>>>), GClose, WS, GOpen, Alt(<<<<"d","a","y">>, <<"d","a","t","e">>, <<"t","o","d","a","y">>, <<"n","o","w">>>>), GClose, WB>>,
          \* r'\b(today|now)\s+(date|day)\b'
          <<WB, GOpen, Alt(<<<<"t","o","d","a","y">>, <<"n","o","w">>>>), GClose, WS, GOpen, Alt(<<<<"d","a","t","e">>, <<"d","a","y">>>>), GClose, WB>>,
          \* r'\b(date|day)\s+(today|now)\b'
          <<WB, GOpen, Alt(<<<<"d","a","t","e">>, <<"d","a","y">>>>), GClose, WS, GOpen, Alt(<<<<"t","o","d","a","y">>, <<"n","o","w">>>>), GClose, WB>>,
          \* r'\bcurrent\s+date\b'
          <<WB, Lit(<<"c","u","r","r","e","n","t">>), WS, Lit(<<"d","a","t","e">>), WB>>,
          \* r'\btoday\'s\s+date\b'
          <<WB, Lit(<<"t","o","d","a","y","'","s">>), WS, Lit(<<"d","a","t","e">>), WB>>,
          \* r'\bdate\s+now\b'
          <<WB, Lit(<<"d","a","t","e">>), WS, Lit(<<"n","o","w">>), WB>>,
          \* r'\bwhat\s+date\s+is\s+it\b'
          <<WB, Lit(<<"w","h","a","t">>), WS, Lit(<<"d","a","t","e">>), WS, Lit(<<"i","s">>), WS, Lit(<<"i","t">>), WB>>,
          \* r'\bcan\s+you\s+(tell|give|show)\s+me\s+the\s+date\b'
          <<WB, Lit(<<"c","a","n">>), WS, Lit(<<"y","o","u">>), WS, GOpen, Alt(<<<<"t","e","l","l">>, <<"g","i","v","e">>, <<"s","h","o","w">>>>), GClose, WS, Lit(<<"m","e">>), WS, Lit(<<"t","h","e">>), WS, Lit(<<"d","a","t","e">>), WB>>
       >> @@
       "keywords" :> <<<<"d","a","t","e">>,
                       <<"t","o","d","a","y">>,
                       <<"d","a","y">>,
                       <<"n","o","w">>,
                       <<"c","u","r","r","e","n","t">>>> @@
       "threshold" :> 600],
    [name |-> "name_request", config |->
       "patterns" :> <<
          \* r'\b(what|tell me|what\'s|what is)\s+(your|your name|should i call you)\b'
          <<WB, GOpen, Alt(<<<<"w","h","a","t">>, <<"t","e","l","l"," ","m","e">>, <<"w","h","a","t","'","s">>, <<"w","h","a","t"," ","i","s">>>>), GClose, WS, GOpen, Alt(<<<<"y","o","u","r">>, <<"y","o","u","r"," ","n","a","m","e">>, <<"s","h","o","u","l","d"," ","i"," ","c","a","l","l"," ","y","o","u">>>>), GClose, WB>>,
          \* r'\b(call|name)\s+you\b'
          <<WB, GOpen, Alt(<<<<"c","a","l","l">>, <<"n","a","m","e">>>>), GClose, WS, Lit(<<"y","o","u">>), WB>>,
          \* r'\bdo\s+you\s+have\s+a\s+name\b'
          <<WB, Lit(<<"d","o">>), WS, Lit(<<"y","o","u">>), WS, Lit(<<"h","a","v","e">>), WS, Lit(<<"a">>), WS, Lit(<<"n","a","m","e">>), WB>>,
          \* r'\bwhat\s+can\s+i\s+call\s+you\b'
          <<WB, Lit(<<"w","h","a","t">>), WS, Lit(<<"c","a","n">>), WS, Lit(<<"i">>), WS, Lit(<<"c","a","l","l">>), WS, Lit(<<"y","o","u">>), WB>>,
          \* r'\byour\s+name\b'
          <<WB, Lit(<<"y","o","u","r">>), WS, Lit(<<"n","a","m","e">>), WB>>
       >> @@
       "keywords" :> <<<<"n","a","m","e">>,
                       <<"c","a","l","l">>,
                       <<"y","o","u">>,
                       <<"y","o","u","r">>>> @@
       "threshold" :> 600],
    [name |-> "capability_question", config |->
       "patterns" :> <<
          \* r'\b(are you|do you|can you)\s+(aware|know|access|get|find|browse|read)\b'
          <<WB, GOpen, Alt(<<<<"a","r","e"," ","y","o","u">>, <<"d","o"," ","y","o","u">>, <<"c","a","n"," ","y","o","u">>>>), GClose, WS, GOpen, Alt(<<<<"a","w","a","r","e">>, <<"k","n","o","w">>, <<"a","c","c","e","s","s">>, <<"g","e","t">>, <<"f","i","n","d">>, <<"b","r","o","w","s","e">>, <<"r","e","a","d">>>>), GClose, WB>>,
          \* r'\b(where|how)\s+do\s+you\s+(get|find|access|know)\b'
          <<WB, GOpen, Alt(<<<<"w","h","e","r","e">>, <<"h","o","w">>>>), GClose, WS, Lit(<<"d","o">>), WS, Lit(<<"y","o","u">>), WS, GOpen, Alt(<<<<"g","e","t">>, <<"f","i","n","d">>, <<"a","c","c","e","s","s">>, <<"k","n","o","w">>>>), GClose, WB>>,
          \* r'\b(news sources|information sources)\b'
          <<WB, GOpen, Alt(<<<<"n","e","w","s"," ","s","o","u","r","c","e","s">>, <<"i","n","f","o","r","m","a","t","i","o","n"," ","s","o","u","r","c","e","s">>>>), GClose, WB>>,
          \* r'\bintelligently\s+aware\b'
          <<WB, Lit(<<"i","n","t","e","l","l","i","g","e","n","t","l","y">>), WS, Lit(<<"a","w","a","r","e">>), WB>>,
          \* r'\bdo\s+you\s+have\s+access\b'
          <<WB, Lit(<<"d","o">>), WS, Lit(<<"y","o","u">>), WS, Lit(<<"h","a","v","e">>), WS, Lit(<<"a","c","c","e","s","s">>), WB>>,
          \* r'\bcan\s+you\s+read\b'
          <<WB, Lit(<<"c","a","n">>), WS, Lit(<<"y","o","u">>), WS, Lit(<<"r","e","a","d">>), WB>>
       >> @@
       "keywords" :> <<<<"a","w","a","r","e">>,
                       <<"k","n","o","w">>,
                       <<"a","c","c","e","s","s">>,
                       <<"g","e","t">>,
                       <<"f","i","n","d">>,
                       <<"b","r","o","w","s","e">>,
                       <<"r","e","a","d">>,
                       <<"s","o","u","r","c","e","s">>,
                       <<"i","n","f","o","r","m","a","t","i","o","n">>>> @@
       "threshold" :> 500],
    [name |-> "correction", config |->
       "patterns" :> <<
          \* r'\b(no|wrong|incorrect|actually|but|however)\b'
          <<WB, GOpen, Alt(<<<<"n","o">>, <<"w","r","o","n","g">>, <<"i","n","c","o","r","r","e","c","t">>, <<"a","c","t","u","a","l","l","y">>, <<"b","u","t">>, <<"h","o","w","e","v","e","r">>>>), GClose, WB>>,
          \* r'\b(that\'s|that is)\s+(wrong|not right|incorrect)\b'
          <<WB, GOpen, Alt(<<<<"t","h","a","t","'","s">>, <<"t","h","a","t"," ","i","s">>>>), GClose, WS, GOpen, Alt(<<<<"w","r","o","n","g">>, <<"n","o","t"," ","r","i","g","h","t">>, <<"i","n","c","o","r","r","e","c","t">>>>), GClose, WB>>,
          \* r'\byou\'re\s+wrong\b'
          <<WB, Lit(<<"y","o","u","'","r","e">>), WS, Lit(<<"w","r","o","n","g">>), WB>>,
          \* r'\bthat\'s\s+not\s+(right|correct)\b'
          <<WB, Lit(<<"t","h","a","t","'","s">>), WS, Lit(<<"n","o","t">>), WS, GOpen, Alt(<<<<"r","i","g","h","t">>, <<"c","o","r","r","e","c","t">>>>), GClose, WB>>
       >> @@
       "keywords" :> <<<<"n","o">>,
                       <<"w","r","o","n","g">>,
                       <<"i","n","c","o","r","r","e","c","t">>,
                       <<"a","c","t","u","a","l","l","y">>,
                       <<"b","u","t">>,
                       <<"h","o","w","e","v","e","r">>>> @@
       "threshold" :> 700],
    [name |-> "follow_up", config |->
       "patterns" :> <<
          \* r'\b(tell me|explain|elaborate)\s+more\b'
          <<WB, GOpen, Alt(<<<<"t","e","l","l"," ","m","e">>, <<"e","x","p","l","a","i","n">>, <<"e","l","a","b","o","r","a","t","e">>>>), GClose, WS, Lit(<<"m","o","r","e">>), WB>>,
          \* r'\b(what about|more details|what else)\b'
          <<WB, GOpen, Alt(<<<<"w","h","a","t"," ","a","b","o","u","t">>, <<"m","o","r","e"," ","d","e","t","a","i","l","s">>, <<"w","h","a","t"," ","e","l","s","e">>>>), GClose, WB>>,
          \* r'\b(and also|also|additionally)\b'
          <<WB, GOpen, Alt(<<<<"a","n","d"," ","a","l","s","o">>, <<"a","l","s","o">>, <<"a","d","d","i","t","i","o","n","a","l","l","y">>>>), GClose, WB>>,
          \* r'\b(what do you think|your opinion|your take)\b'
          <<WB, GOpen, Alt(<<<<"w","h","a","t"," ","d","o"," ","y","o","u"," ","t","h","i","n","k">>, <<"y","o","u","r"," ","o","p","i","n","i","o","n">>, <<"y","o","u","r"," ","t","a","k","e">>>>), GClose, WB>>,
          \* r'\blike\s+explain\b'
          <<WB, Lit(<<"l","i","k","e">>), WS, Lit(<<"e","x","p","l","a","i","n">>), WB>>,
          \* r'\bcan\s+you\s+(elaborate|explain)\b'
          <<WB, Lit(<<"c","a","n">>), WS, Lit(<<"y","o","u">>), WS, GOpen, Alt(<<<<"e","l","a","b","o","r","a","t","e">>, <<"e","x","p","l","a","i","n">>>>), GClose, WB>>
       >> @@
       "keywords" :> <<<<"m","o","r","e">>,
                       <<"f","u","r","t","h","e","r">>,
                       <<"e","l","s","e">>,
                       <<"a","l","s","o">>,
                       <<"t","h","i","n","k">>,
                       <<"o","p","i","n","i","o","n">>,
                       <<"e","x","p","l","a","i","n">>,
                       <<"e","l","a","b","o","r","a","t","e">>>> @@
       "threshold" :> 500]
>>
\* IntentClassifier._load_default_config: self.news_patterns
default_news_patterns == <<
    \* r'\b(tell me|what\'s|what is)\s+(happening|latest|current|trending|breaking)\b'
    <<WB, GOpen, Alt(<<<<"t","e","l","l"," ","m","e">>, <<"w","h","a","t","'","s">>, <<"w","h","a","t"," ","i","s">>>>), GClose, WS, GOpen, Alt(<<<<"h","a","p","p","e","n","i","n","g">>, <<"l","a","t","e","s","t">>, <<"c","u","r","r","e","n","t">>, <<"t","r","e","n","d","i","n","g">>, <<"b","r","e","a","k","i","n","g">>>>), GClose, WB>>,
    \* r'\b(latest|current|trending|breaking|recent)\s+(news|developments|updates)\b'
    <<WB, GOpen, Alt(<<<<"l","a","t","e","s","t">>, <<"c","u","r","r","e","n","t">>, <<"t","r","e","n","d","i","n","g">>, <<"b","r","e","a","k","i","n","g">>, <<"r","e","c","e","n","t">>>>), GClose, WS, GOpen, Alt(<<<<"n","e","w","s">>, <<"d","e","v","e","l","o","p","m","e","n","t","s">>, <<"u","p","d","a","t","e","s">>>>), GClose, WB>>,
    \* r'\b(protest|election|government|politics|economy|business)\b'
    <<WB, GOpen, Alt(<<<<"p","r","o","t","e","s","t">>, <<"e","l","e","c","t","i","o","n">>, <<"g","o","v","e","r","n","m","e","n","t">>, <<"p","o","l","i","t","i","c","s">>, <<"e","c","o","n","o","m","y">>, <<"b","u","s","i","n","e","s","s">>>>), GClose, WB>>,
    \* r'\b(kenya|kenyan)\s+(news|politics|economy)\b'
    <<WB, GOpen, Alt(<<<<"k","e","n","y","a">>, <<"k","e","n","y","a","n">>>>), GClose, WS, GOpen, Alt(<<<<"n","e","w","s">>, <<"p","o","l","i","t","i","c","s">>, <<"e","c","o","n","o","m","y">>>>), GClose, WB>>,
    \* r'\bwhat\s+(about|regarding|concerning)\b'
    <<WB, Lit(<<"w","h","a","t">>), WS, GOpen, Alt(<<<<"a","b","o","u","t">>, <<"r","e","g","a","r","d","i","n","g">>, <<"c","o","n","c","e","r","n","i","n","g">>>>), GClose, WB>>
>>

\* IntentClassifier._load_default_config: self.settings
default_settings == "pattern_weight" :> 700 @@ "keyword_weight" :> 300 @@
                    "default_threshold" :> 500 @@ "fuzzy_match_threshold" :> 800

DefaultConfig == [intents |-> default_intents, news_patterns |-> default_news_patterns,
                  settings |-> default_settings]

(***************************************************************************)
(* NewsSearchAgent: the time-aware search and its summaries.  The vector   *)
(* search and the summarizer are services outside the program: an outcome  *)
(* of the search is [ok, hits], ok = FALSE when the call raised; an        *)
(* outcome of a chat completion is [ok, content].                          *)
(***************************************************************************)
summary_sentences == 2

\* f"{score:.3f}", the score in thousandths
Format3f(score) ==
    <<Digit(score \div 1000), ".", Digit((score \div 100) % 10),
      Digit((score \div 10) % 10), Digit(score % 10)>>

\* NewsSearchAgent.search_articles and search_by_date_range: the formatted
\* hits, and [] when the search raised
search_articles(search) == IF search.ok THEN search.hits ELSE <<>>

\* NewsSearchAgent.summarize_with_sambanova(text), completion being the
\* outcome of self.samba_client.chat.completions.create
summarize_with_sambanova(samba_client, completion) ==
    IF ~samba_client THEN <<"[SambaNova client not initialized]">>
    ELSE IF completion.ok THEN Strip(completion.content)
    ELSE <<"[SambaNova API error: ", "<e>", "]">>

\* re.split(r'[.!?]+', s): the pieces between the runs of . ! ?
RECURSIVE ReSplitFrom(_, _, _)
ReSplitFrom(s, i, piece) ==
    IF i > Len(s) THEN <<piece>>
    ELSE IF s[i] \in {".", "!", "?"}
    THEN IF i < Len(s) /\ s[i + 1] \in {".", "!", "?"}
         THEN ReSplitFrom(s, i + 1, piece)
         ELSE <<piece>> \o ReSplitFrom(s, i + 1, <<>>)
    ELSE ReSplitFrom(s, i + 1, Append(piece, s[i]))

\* sentences[:summary_sentences]
FirstSentences(sentences) ==
    Slice(sentences, 1, IF Len(sentences) < summary_sentences THEN Len(sentences)
                        ELSE summary_sentences)
\* the full stop added to a summary that has none
WithFullStop(summary) ==
    IF summary # <<>> /\ ~EndsWith(summary, <<".">>) THEN summary \o <<".">> ELSE summary
\* the summary taken from the content when there is no summarizer
FallbackSummary(content) ==
    WithFullStop(Strip(Join(<<".", " ">>, FirstSentences(ReSplitFrom(content, 1, <<>>)))))

\* time_info of search_and_summarize_time_aware
TimeInfo(start_date, end_date) ==
    IF start_date # None /\ end_date # None
    THEN <<" from ">> \o start_date \o <<" to ">> \o end_date
    ELSE <<>>

\* the no-result text without its time range
NoArticlesMessagePlain(cleaned_query, start_date, end_date) ==
    <<"No articles found for query: '">> \o cleaned_query \o <<"'">>
\* the text returned when the search has no result
NoArticlesMessage(cleaned_query, start_date, end_date) ==
    <<"No articles found for query: '">> \o cleaned_query \o <<"'">>
        \o TimeInfo(start_date, end_date)

\* result_text of the i-th result
ResultText(i, result, summary) ==
    <<"\n", "Article ", Digit(i), " (Score: ">> \o Format3f(result.score) \o <<")\n">>
        \o <<"Title: ">> \o result.title \o <<"\n">>
        \o <<"Date: ">> \o result.date \o <<"\n">>
        \o <<"Category: ">> \o result.category \o <<"\n">>
        \o <<"Summary: ">> \o summary \o <<"\n">>
        \o <<"URL: ">> \o result.url \o <<"\n">>

\* the summary of one result; completion is the outcome of the summarizer
SummaryOf(result, samba_client, completion) ==
    IF result.content # <<>> /\ samba_client
    THEN summarize_with_sambanova(samba_client, completion)
    ELSE IF result.content # <<>> THEN FallbackSummary(result.content)
    ELSE <<"[No content available]">>

\* the text made of what parse_time_expression and the search returned
FormatResults(parsed, results, samba_client, completions) ==
    IF results = <<>>
    THEN NoArticlesMessage(parsed.cleaned_query, parsed.start_date, parsed.end_date)
    ELSE Join(<<"\n">>,
              << <<"Search Results for: '">> \o parsed.cleaned_query \o <<"'">>
                   \o TimeInfo(parsed.start_date, parsed.end_date)
                   \o <<"\n", "============================================================">> >>
              \o [i \in 1..Len(results) |->
                      ResultText(i, results[i], SummaryOf(results[i], samba_client, completions[i]))])

\* NewsSearchAgent.search_and_summarize_time_aware(query): now is
\* datetime.now(), search the outcome of the vector search, completions[i] the
\* outcome of the summarizer for the i-th result
search_and_summarize_time_aware(query, now, samba_client, search, completions) ==
    FormatResults(parse_time_expression(query, now), search_articles(search),
                  samba_client, completions)

(***************************************************************************)
(* MemoryEnabledWhatsAppBot.enhance_response_quality(response,             *)
(* message_type); random is the value of random.random() in thousandths.   *)
(***************************************************************************)
SourcesSuffix == <<"\n\n", "[news] Sources: Verified news outlets">>
SmileSuffix == <<" ", "[smile]">>

enhance_response_quality(response, message_type, random) ==
    IF message_type = "news" THEN response \o SourcesSuffix
    ELSE IF message_type = "chat" /\ random < 100 THEN response \o SmileSuffix
    ELSE response

(***************************************************************************)
(* The inputs of the search functions                                      *)
(***************************************************************************)
Topics == { <<"n","e","w","s">>, <<"K","e","n","y","a"," ","P","o","l","i","t","i","c","s">> }
Connectors == { <<" ">>, <<" ","f","r","o","m"," ">> }

\* the time phrases put after the topic: the kind tells a phrase of the
\* relative vocabulary from an absolute range and from no phrase at all
Phrases == {
    [id |-> "yesterday",    kind |-> "relative", text |-> <<"y","e","s","t","e","r","d","a","y">>],
    [id |-> "today",        kind |-> "relative", text |-> <<"t","o","d","a","y">>],
    [id |-> "last week",    kind |-> "relative", text |-> <<"l","a","s","t"," ","w","e","e","k">>],
    [id |-> "past week",    kind |-> "relative", text |-> <<"p","a","s","t"," ","w","e","e","k">>],
    [id |-> "this week",    kind |-> "relative", text |-> <<"t","h","i","s"," ","w","e","e","k">>],
    [id |-> "last month",   kind |-> "relative", text |-> <<"l","a","s","t"," ","m","o","n","t","h">>],
    [id |-> "this month",   kind |-> "relative", text |-> <<"T","h","i","s"," ","M","o","n","t","h">>],
    [id |-> "last year",    kind |-> "relative", text |-> <<"l","a","s","t"," ","y","e","a","r">>],
    [id |-> "this year",    kind |-> "relative", text |-> <<"t","h","i","s"," ","y","e","a","r">>],
    [id |-> "last 3 days",  kind |-> "relative", text |-> <<"l","a","s","t"," ","3"," ","d","a","y","s">>],
    [id |-> "last 7 days",  kind |-> "relative", text |-> <<"l","a","s","t"," ","7"," ","d","a","y","s">>],
    [id |-> "last 30 days", kind |-> "relative", text |-> <<"l","a","s","t"," ","3","0"," ","d","a","y","s">>],
    [id |-> "last 2 weeks", kind |-> "relative", text |-> <<"l","a","s","t"," ","2"," ","w","e","e","k","s">>],
    [id |-> "last 3 weeks", kind |-> "relative", text |-> <<"p","a","s","t"," ","3"," ","w","e","e","k","s">>],
    [id |-> "last 5 days",  kind |-> "unknown",  text |-> <<"l","a","s","t"," ","5"," ","d","a","y","s">>],
    [id |-> "none",         kind |-> "none",     text |-> <<"t","o","d","a","y","2">>],
    [id |-> "range",        kind |-> "absolute", text |-> <<"1","s","t"," ","j","u","l","y"," ","t","o"," ","5","t","h"," ","j","u","l","y">>],
    [id |-> "leap range",   kind |-> "absolute", text |-> <<"2","9"," ","f","e","b","r","u","a","r","y"," ","t","o"," ","1"," ","m","a","r","c","h">>],
    [id |-> "weekday range", kind |-> "absolute", text |-> <<"3"," ","l","a","s","t"," ","t","o"," ","4"," ","m","o","n","d","a","y">>] }

\* a query '<topic><connector><phrase>', and a few queries of other shapes
Queries ==
    {[text |-> t \o c \o p.text, topic |-> t, connector |-> c, phrase |-> p.id, kind |-> p.kind] :
        t \in Topics, c \in Connectors, p \in Phrases}
    \cup {[text |-> x, topic |-> <<>>, connector |-> <<>>, phrase |-> "raw", kind |-> "raw"] :
        x \in { <<>>, <<" ","T","o","d","a","y"," ">>, <<"t","o","d","a","y","'","s"," ","h","e","a","d","l","i","n","e","s">>, <<"F","l","o","o","d","s">>,
                <<"N","e","w","s"," "," ","f","r","o","m"," ","Y","e","s","t","e","r","d","a","y","'","s"," ","p","a","p","e","r">>,
                <<"n","e","w","s"," ","t","o","d","a","y"," ","f","r","o","m"," ","1","0"," ","j","u","l","y"," ","t","o"," ","5"," ","j","u","n","e">> }}

\* reference dates: a day inside a month, a leap day, the first and the last
\* day of a year
RefDates == { ToOrdinal(2025, 7, 27), ToOrdinal(2024, 2, 29),
              ToOrdinal(2025, 1, 1), ToOrdinal(2024, 12, 31) }

Hit1 == [score |-> 873, title |-> <<"F","l","o","o","d","s">>, url |-> <<"<url 1>">>,
         date |-> <<"2","0","2","5","-","0","7","-","2","0">>, category |-> <<"n","e","w","s">>,
         content |-> <<"R","a","i","n"," ","f","e","l","l",".","."," ","R","o","a","d","s"," ","c","l","o","s","e","d","!"," ","M","o","r","e"," ","s","o","o","n">>]
Hit2 == [score |-> 1000, title |-> <<>>, url |-> <<>>, date |-> <<>>, category |-> <<>>,
         content |-> <<>>]
Failed == [ok |-> FALSE, content |-> <<>>]
Summary == [ok |-> TRUE, content |-> <<" ","A"," ","s","u","m","m","a","r","y","."," ">>]

\* the outcomes of the services for one call of the search
SearchEnvs == {
    [search |-> [ok |-> FALSE, hits |-> <<>>], samba_client |-> TRUE, completions |-> <<Failed, Failed>>],
    [search |-> [ok |-> TRUE, hits |-> <<>>], samba_client |-> TRUE, completions |-> <<Failed, Failed>>],
    [search |-> [ok |-> TRUE, hits |-> <<>>], samba_client |-> FALSE, completions |-> <<Failed, Failed>>],
    [search |-> [ok |-> TRUE, hits |-> <<Hit1>>], samba_client |-> TRUE, completions |-> <<Summary>>],
    [search |-> [ok |-> TRUE, hits |-> <<Hit1, Hit2>>], samba_client |-> TRUE, completions |-> <<Failed, Failed>>],
    [search |-> [ok |-> TRUE, hits |-> <<Hit2, Hit1>>], samba_client |-> FALSE, completions |-> <<Failed, Failed>>] }

Responses == { <<>>, <<"<response>">>, <<"<response>">> \o SourcesSuffix }
MessageTypes == {"news", "chat", "other"}
RandomValues == {50, 500}
MaxEnhance == 2

(***************************************************************************)
(* SpecSearch: the functions of NewsSearchAgent and                        *)
(* enhance_response_quality, applied to the inputs above.                  *)
(***************************************************************************)
Quiet ==
    /\ config_file = "missing"
    /\ classifier = DefaultConfig
    /\ max_context_messages = 8
    /\ conversations = <<>>
    /\ conversation_context = <<>>
    /\ current_conversations = <<>>
    /\ preferences = <<>>
    /\ clock = 0

InitSearch ==
    /\ Quiet
    /\ \/ \E q \in Queries, now \in RefDates :
            last = [op |-> "query", q |-> q, now |-> now]
       \/ \E q \in Queries, now \in RefDates, env \in SearchEnvs :
            last = [op |-> "search query", q |-> q, now |-> now, env |-> env]
       \/ \E r \in Responses :
            last = [op |-> "response", result |-> r, applied |-> <<>>]

ParseTimeExpression ==
    /\ last.op = "query"
    /\ last' = [op |-> "parse", q |-> last.q, now |-> last.now,
                result |-> parse_time_expression(last.q.text, last.now)]
    /\ UNCHANGED <<config_file, classifier, max_context_messages, conversations,
                   conversation_context, current_conversations, preferences, clock>>

SearchAndSummarize ==
    /\ last.op = "search query"
    /\ last' = [op |-> "search", q |-> last.q, now |-> last.now, env |-> last.env,
                result |-> search_and_summarize_time_aware(last.q.text, last.now,
                              last.env.samba_client, last.env.search, last.env.completions)]
    /\ UNCHANGED <<config_file, classifier, max_context_messages, conversations,
                   conversation_context, current_conversations, preferences, clock>>

EnhanceResponse ==
    /\ last.op \in {"response", "enhance"}
    /\ Len(last.applied) < MaxEnhance
    /\ \E message_type \in MessageTypes, random \in RandomValues :
            last' = [op |-> "enhance", response |-> last.result,
                     applied |-> Append(last.applied, message_type),
                     result |-> enhance_response_quality(last.result, message_type, random)]
    /\ UNCHANGED <<config_file, classifier, max_context_messages, conversations,
                   conversation_context, current_conversations, preferences, clock>>

NextSearch == ParseTimeExpression \/ SearchAndSummarize \/ EnhanceResponse

SpecSearch == InitSearch /\ [][NextSearch]_vars

(***************************************************************************)
(* Properties of SpecSearch                                                *)
(***************************************************************************)
\* C4: enhance_response_quality applied to a news response gives a text that
\* holds the source-attribution suffix exactly once, and applied again to the
\* text it already enhanced as news it returns that text unchanged.
C4_EnhanceNewsIdempotent ==
    (last.op = "enhance" /\ last.applied[Len(last.applied)] = "news") =>
        /\ Cardinality({i \in 1..Len(last.result) : last.result[i] = SourcesSuffix[2]}) = 1
        /\ (Len(last.applied) >= 2 /\ last.applied[Len(last.applied) - 1] = "news")
               => last.result = last.response

\* C5 as the specification states it: with no hit the text returned is
\* "No articles found for query: 'q'" with q the query as the caller gave it,
\* followed by " from <start> to <end>" exactly when a range was extracted.
C5_NoArticlesCallerQuery ==
    (last.op = "search" /\ search_articles(last.env.search) = <<>>) =>
        LET parsed == parse_time_expression(last.q.text, last.now)
        IN  last.result =
                <<"No articles found for query: '">> \o last.q.text \o <<"'">>
                \o (IF parsed.start_date # None /\ parsed.end_date # None
                    THEN <<" from ">> \o parsed.start_date \o <<" to ">> \o parsed.end_date
                    ELSE <<>>)

\* C5, amended: with no hit (the search failed or found nothing, with or
\* without a summarizer) the text returned is "No articles found for query:
\* 'q'" with q the cleaned query parse_time_expression returns for the caller's
\* query, followed by " from <start> to <end>" exactly when parse_time_expression
\* returned a range.
C5_NoArticlesCleanedQuery ==
    (last.op = "search" /\ search_articles(last.env.search) = <<>>) =>
        LET parsed == parse_time_expression(last.q.text, last.now)
        IN  last.result =
                <<"No articles found for query: '">> \o parsed.cleaned_query \o <<"'">>
                \o (IF parsed.start_date # None /\ parsed.end_date # None
                    THEN <<" from ">> \o parsed.start_date \o <<" to ">> \o parsed.end_date
                    ELSE <<>>)

\* a search without a hit for a query from which a range was extracted and
\* whose cleaned query is not the caller's
C5_Witness ==
    /\ last.op = "search"
    /\ last.env.search.ok /\ last.env.search.hits = <<>>
    /\ last.q.kind = "relative"
    /\ parse_time_expression(last.q.text, last.now).start_date # None
    /\ parse_time_expression(last.q.text, last.now).cleaned_query # last.q.text
    /\ \E i \in 1..Len(last.result) : last.result[i] = " from "

\* C6: for a query '<topic> from <relative time phrase>' the cleaned query is
\* the topic alone (in lower case, as the parser works on the lowered query).
C6_CleanedQueryIsTopic ==
    (last.op = "parse" /\ last.q.kind = "relative" /\ last.q.connector = <<" ","f","r","o","m"," ">>)
        => last.result.cleaned_query = Lower(last.q.topic)

load_config(file) ==
    IF file.exists /\ file.valid
    THEN [intents       |-> Get(file.config, "intents", <<>>),
          news_patterns |-> Get(file.config, "news_patterns", <<>>),
          settings      |-> Get(file.config, "settings", <<>>)]
    ELSE DefaultConfig

\* intents of a configuration file: two with the same pattern and keyword,
\* one without a threshold of its own, one with a pattern that does not
\* compile and the threshold 0
casual == [name |-> "casual", config |->
              "patterns" :> << <<WB, Lit(<<"h","e","l","l","o">>), WB>> >> @@
              "keywords" :> << <<"h","e","l","l","o">> >> @@
              "threshold" :> 500]
greeting == [name |-> "greeting", config |->
              "patterns" :> << <<WB, GOpen, Alt(<<<<"h","e","l","l","o">>, <<"h","i">>>>), GClose, WB>> >> @@
              "keywords" :> << <<"h","e","l","l","o">> >>]
short == [name |-> "short", config |->
              "patterns" :> << BadPattern, <<WB, Lit(<<"h","i">>), WB>> >> @@
              "keywords" :> << <<"h","i">> >> @@
              "threshold" :> 0]

\* what intent_config.json can hold
MissingFile == [exists |-> FALSE, valid |-> FALSE, config |-> <<>>]
MalformedFile == [exists |-> TRUE, valid |-> FALSE, config |-> <<>>]
TieFile == [exists |-> TRUE, valid |-> TRUE, config |->
              "intents" :> <<casual, greeting, short>> @@
              "settings" :> ("pattern_weight" :> 500 @@ "keyword_weight" :> 500 @@
                             "default_threshold" :> 400)]
OrderFile == [exists |-> TRUE, valid |-> TRUE, config |->
              "intents" :> <<short, greeting, casual>>]
ConfigFiles == {MissingFile, MalformedFile, TieFile, OrderFile}

ClassifierMessages == { <<"H","e","l","l","o"," ","h","i">>, <<"h","i">>, <<" ">>, <<"d","a","t","e"," ","n","o","w">>, <<"z","e","b","r","a">> }

NoCall == [config |-> <<>>, message |-> <<>>, result |-> [intent |-> NoIntent, score |-> Zero]]

InitClassify ==
    /\ config_file \in ConfigFiles
    /\ classifier = load_config(config_file)
    /\ max_context_messages = 8
    /\ conversations = <<>>
    /\ conversation_context = <<>>
    /\ current_conversations = <<>>
    /\ preferences = <<>>
    /\ clock = 0
    /\ last = [op |-> "__init__", call |-> NoCall, earlier |-> NoCall]

\* somebody edits intent_config.json
WriteConfigFile ==
    /\ \E file \in ConfigFiles : file # config_file /\ config_file' = file
    /\ last' = [last EXCEPT !.op = "write"]
    /\ UNCHANGED <<classifier, max_context_messages, conversations, conversation_context,
                   current_conversations, preferences, clock>>

\* IntentClassifier.reload_config()
ReloadConfig ==
    /\ classifier' = load_config(config_file)
    /\ last' = [last EXCEPT !.op = "reload_config"]
    /\ UNCHANGED <<config_file, max_context_messages, conversations, conversation_context,
                   current_conversations, preferences, clock>>

\* IntentClassifier.classify_intent(message).  last.call is the call and
\* what it returned; last.earlier is one of the calls made before it, any of
\* them
ClassifyIntent ==
    /\ \E message \in ClassifierMessages, keep \in BOOLEAN :
         \E result \in {classify_intent(classifier, message)} :
            last' = [op      |-> "classify_intent",
                     call    |-> [config |-> classifier, message |-> message,
                                  result |-> result],
                     earlier |-> IF keep THEN last.earlier ELSE last.call]
    /\ UNCHANGED <<config_file, classifier, max_context_messages, conversations,
                   conversation_context, current_conversations, preferences, clock>>

NextClassify == WriteConfigFile \/ ReloadConfig \/ ClassifyIntent

SpecClassify == InitClassify /\ [][NextClassify]_vars

(***************************************************************************)
(* Claims about the intent classifier                                      *)
(***************************************************************************)
\* the scores _calculate_intent_score gives the intents of a call, in
\* declaration order
RECURSIVE ScoresFrom(_, _)
ScoresFrom(call, i) ==
    IF i > Len(call.config.intents) THEN <<>>
    ELSE <<_calculate_intent_score(call.config.settings, Strip(Lower(call.message)),
                                   call.config.intents[i].config)>>
         \o ScoresFrom(call, i + 1)
\* the intents of a call whose score reaches their threshold
Qualifying(call, scores) ==
    {i \in 1..Len(scores) :
        FAtLeast(scores[i], ThresholdOf(call.config.settings, call.config.intents[i].config))}
\* intent i is the first declared of the qualifying intents of greatest score
FirstMaximal(i, scores, Q) ==
    /\ i \in Q
    /\ \A j \in Q : FLeq(scores[j], scores[i])
    /\ \A j \in Q : j < i => FLess(scores[j], scores[i])
\* what a call returned is the first maximal qualifying intent and its score
ReturnsFirstMaximal(call, scores, Q) ==
    /\ call.result.intent # NoIntent =>
          \E i \in Q : /\ call.config.intents[i].name = call.result.intent
                       /\ call.result.score = scores[i]
                       /\ FirstMaximal(i, scores, Q)
    /\ (\E j \in Q : FLess(Zero, scores[j])) => call.result.intent # NoIntent

Epoch == ToOrdinal(2025, 7, 27)

\* datetime.isoformat() of a clock reading: a whole hour has no fraction
isoformat(t) ==
    StrfYmd(Epoch + (t \div 24))
    \o <<"T", Digit((t % 24) \div 10), Digit((t % 24) % 10), ":", "0", "0", ":", "0", "0">>

\* datetime.fromisoformat(text), as a clock reading
fromisoformat(text) ==
    (ToOrdinal(1000 * DigitValue(text[1]) + 100 * DigitValue(text[2])
                 + 10 * DigitValue(text[3]) + DigitValue(text[4]),
               10 * DigitValue(text[6]) + DigitValue(text[7]),
               10 * DigitValue(text[9]) + DigitValue(text[10])) - Epoch) * 24
    + 10 * DigitValue(text[12]) + DigitValue(text[13])

\* the bytes of the characters of a timestamp
CharCode(c) == IF IsDigit(c) THEN 48 + DigitValue(c)
               ELSE IF c = "-" THEN 45 ELSE IF c = ":" THEN 58 ELSE 84

\* a < b for two TEXT values of SQLite, compared from character i on
\* (memcmp: the first byte that differs decides, the shorter text is first)
RECURSIVE TextLessFrom(_, _, _)
TextLessFrom(a, b, i) ==
    IF i > Len(b) THEN FALSE
    ELSE IF i > Len(a) THEN TRUE
    ELSE IF a[i] # b[i] THEN CharCode(a[i]) < CharCode(b[i])
    ELSE TextLessFrom(a, b, i + 1)
TextLess(a, b) == TextLessFrom(a, b, 1)

\* dict[key] = value
Put(dict, key, value) ==
    [k \in DOMAIN dict \cup {key} |-> IF k = key THEN value ELSE dict[k]]

\* list[-n:] for n > 0
LastN(list, n) == IF Len(list) > n THEN SubSeq(list, Len(list) - n + 1, Len(list)) ELSE list

\* a cache that is cut as soon as it holds twice the window
TrimEarly(messages, W) == IF Len(messages) >= W * 2 THEN LastN(messages, W) ELSE messages

\* add_message: a cache of more than twice the window keeps the window
Trim(messages, W) == IF Len(messages) > W * 2 THEN LastN(messages, W) ELSE messages

\* ConversationMemory.add_message up to the write: the cache after the
\* append and the trim
add_message(cache, contact_name, message, W) ==
    Put(cache, contact_name, Trim(Append(Get(cache, contact_name, <<>>), message), W))

\* ConversationMemory._save_to_db: the row INSERT adds
_save_to_db(rows, contact_name, message) ==
    Append(rows, [contact_name |-> contact_name,
                  timestamp    |-> isoformat(message.timestamp),
                  sender       |-> message.sender,
                  content      |-> message.content,
                  message_type |-> message.message_type])

\* WHERE contact_name = ?: the rowids of the contact's rows
RowsOf(rows, contact_name) == {i \in 1..Len(rows) : rows[i].contact_name = contact_name}

\* the rowids of ids no other of which has a greater timestamp
Latest(rows, ids) ==
    {i \in ids : \A j \in ids : ~TextLess(rows[i].timestamp, rows[j].timestamp)}

\* ORDER BY timestamp DESC: every order of the rowids ids in which no row
\* comes before a row with a greater timestamp; SQL leaves the order of
\* rows with equal timestamps open
RECURSIVE DescOrders(_, _)
DescOrders(rows, ids) ==
    IF ids = {} THEN {<<>>}
    ELSE UNION {{<<i>> \o rest : rest \in DescOrders(rows, ids \ {i})} : i \in Latest(rows, ids)}

\* LIMIT n
Limit(seq, n) == IF Len(seq) > n THEN SubSeq(seq, 1, n) ELSE seq

\* reversed(rows)
Reversed(seq) == [k \in 1..Len(seq) |-> seq[Len(seq) + 1 - k]]

\* Message(datetime.fromisoformat(row[0]), row[1], row[2], row[3])
MessageOfRow(row) == [timestamp    |-> fromisoformat(row.timestamp),
                      sender       |-> row.sender,
                      content      |-> row.content,
                      message_type |-> row.message_type]

\* ConversationMemory._load_recent_messages: the messages it puts in the
\* cache when the SELECT returns the contact's rows in the order order
_load_recent_messages(rows, order, W) ==
    [k \in 1..Len(Limit(order, W)) |-> MessageOfRow(rows[Reversed(Limit(order, W))[k]])]

\* len(text), a fixed literal counting its characters
RECURSIVE TextLen(_)
TextLen(s) == IF s = <<>> THEN 0 ELSE Len(Head(s)) + TextLen(Tail(s))

\* text[:n]
RECURSIVE TextPrefix(_, _)
TextPrefix(s, n) ==
    IF s = <<>> \/ n <= 0 THEN <<>>
    ELSE IF Len(Head(s)) <= n THEN <<Head(s)>> \o TextPrefix(Tail(s), n - Len(Head(s)))
    ELSE <<SubSeq(Head(s), 1, n)>>

\* _generate_conversation_summary: the contents of the news rows, and the
\* contents longer than 20 characters of the others cut to 100, as the loop
\* over the rows collects them
RECURSIVE news_queries(_, _, _), topics(_, _, _)
news_queries(rows, order, k) ==
    IF k > Len(order) THEN <<>>
    ELSE (IF rows[order[k]].message_type = "news" THEN <<rows[order[k]].content>> ELSE <<>>)
         \o news_queries(rows, order, k + 1)
topics(rows, order, k) ==
    IF k > Len(order) THEN <<>>
    ELSE (IF rows[order[k]].message_type # "news" /\ TextLen(rows[order[k]].content) > 20
          THEN <<TextPrefix(rows[order[k]].content, 100)>> ELSE <<>>)
         \o topics(rows, order, k + 1)

\* the text of the summary
SummaryText(contact_name, news, tops) ==
    <<"Recent conversation with ", contact_name, ". ">>
    \o (IF news # <<>>
        THEN <<"They've asked about: ">> \o Join(<<",", " ">>, LastN(news, 3)) \o <<". ">>
        ELSE <<>>)
    \o (IF tops # <<>>
        THEN <<"Recent topics discussed: ">> \o Join(<<",", " ">>, LastN(tops, 3)) \o <<".">>
        ELSE <<>>)

\* ConversationMemory._save_conversation_summary: INSERT OR REPLACE
_save_conversation_summary(context, contact_name, summary, now) ==
    Put(context, contact_name, [context_summary |-> summary, last_updated |-> isoformat(now)])

\* a summary that was generated, and the table after it was saved
Generated(context, contact_name, summary, now) ==
    [summary |-> summary,
     context |-> _save_conversation_summary(context, contact_name, summary, now)]

\* ConversationMemory._generate_conversation_summary, the SELECT returning
\* the contact's rows in the order order: the summary, and table
\* conversation_context after it
_generate_conversation_summary(context, rows, contact_name, now, order) ==
    IF order = <<>>
    THEN [summary |-> <<"No previous conversation history.">>, context |-> context]
    ELSE Generated(context, contact_name,
                   SummaryText(contact_name, news_queries(rows, Limit(order, 50), 1),
                               topics(rows, Limit(order, 50), 1)),
                   now)

\* a summary of exactly 24 hours reused too (>= for >)
_get_conversation_summary_day(context, rows, contact_name, now, order) ==
    IF /\ contact_name \in DOMAIN context
       /\ fromisoformat(context[contact_name].last_updated) >= now - 24
    THEN [summary |-> context[contact_name].context_summary, context |-> context]
    ELSE _generate_conversation_summary(context, rows, contact_name, now, order)

\* ConversationMemory._get_conversation_summary: a stored summary less than
\* 24 hours old is returned, another is generated
_get_conversation_summary(context, rows, contact_name, now, order) ==
    IF /\ contact_name \in DOMAIN context
       /\ fromisoformat(context[contact_name].last_updated) > now - 24
    THEN [summary |-> context[contact_name].context_summary, context |-> context]
    ELSE _generate_conversation_summary(context, rows, contact_name, now, order)

\* ConversationMemory._generate_system_prompt
_generate_system_prompt(contact_name, context_summary) ==
    <<"You are a helpful AI assistant chatting with ", contact_name,
      " on WhatsApp.\n\nPrevious conversation context: ">>
    \o context_summary
    \o <<"\n\nGuidelines:\n- Remember previous topics and maintain continuity\n- For capability questions about news, explain your process without searching\n- For actual news requests, provide recent information\n- Keep responses concise and WhatsApp-appropriate\n- Be conversational and natural">>

\* the roles the other way round
RoleOfSwapped(sender) == IF sender = "user" THEN "assistant" ELSE "user"
\* role of get_conversation_context
RoleOf(sender) == IF sender = "user" THEN "user" ELSE "assistant"

\* the turns of get_conversation_context for the messages of the cache
Turns(messages, W) ==
    [k \in 1..Len(LastN(messages, W)) |->
        [role |-> RoleOf(LastN(messages, W)[k].sender),
         content |-> LastN(messages, W)[k].content]]

\* ConversationMemory.get_conversation_context, on the cache after the load
\* and with the summary the system prompt is made of
get_conversation_context(cache, contact_name, include_system_prompt, W, context_summary) ==
    (IF include_system_prompt
     THEN <<[role |-> "system",
             content |-> _generate_system_prompt(contact_name, context_summary)]>>
     ELSE <<>>)
    \o Turns(Get(cache, contact_name, <<>>), W)

(***************************************************************************)
(* ConversationMemory on its own: add_message, _load_recent_messages and   *)
(* get_conversation_context called for a contact, the clock advancing      *)
(* or not between two calls, a write to the database failing or not, and   *)
(* the process restarting with an empty cache.                             *)
(***************************************************************************)
MaxWindow == 2
MaxClock == 2
MaxTied == 2

Contacts == {"alice"}
\* what an earlier run of the program left in table conversations
PriorRows == {<<>>,
              <<[contact_name |-> "bob", timestamp |-> isoformat(0), sender |-> "user",
                 content |-> <<"m", "0">>, message_type |-> "chat"]>>}
\* the callers add a message of the user and a message of the bot in turn
KindAfter(n) == IF n % 2 = 0 THEN [sender |-> "user", message_type |-> "chat"]
                ELSE [sender |-> "bot", message_type |-> "news"]
\* the content of the k-th row; a message whose write fails is told apart
Content(k, db_ok) == <<(IF db_ok THEN "m" ELSE "x"), Digit(k)>>
Unsaved(message) == message.content[1] = "x"
\* the rows of a contact that carry the clock reading t
RowsAt(contact_name, t) ==
    {i \in RowsOf(conversations, contact_name) : conversations[i].timestamp = isoformat(t)}
\* how many rows a contact gets: enough for twice the window and one more
RowLimit(contact_name) == 2 * max_context_messages + 1

InitMemory ==
    /\ config_file = "missing"
    /\ classifier = DefaultConfig
    /\ max_context_messages \in 1..MaxWindow
    /\ conversations \in PriorRows
    /\ conversation_context = <<>>
    /\ current_conversations = <<>>
    /\ preferences = <<>>
    /\ clock = 0
    /\ last = [op |-> "__init__", contact_name |-> "", run |-> 0, start |-> 0]

\* how many add_message calls in a row, this one included, reached the store
\* for the contact since its cache was empty (0: the calls are not such a run)
RunAfter(contact_name, db_ok) ==
    IF ~db_ok THEN 0
    ELSE IF Get(current_conversations, contact_name, <<>>) = <<>> THEN 1
    ELSE IF last.op = "add_message" /\ last.contact_name = contact_name /\ last.run > 0
    THEN last.run + 1
    ELSE 0

\* ConversationMemory.add_message(contact_name, sender, content, message_type).
\* The calls stop for a contact at RowLimit rows, at MaxTied rows with one
\* clock reading, and after a write that failed, until the process restarts.
AddMessage ==
    /\ \E contact_name \in Contacts, db_ok \in BOOLEAN :
         \E message \in {[timestamp    |-> clock,
                          sender       |-> KindAfter(Cardinality(RowsOf(conversations, contact_name))).sender,
                          content      |-> Content(Len(conversations) + 1, db_ok),
                          message_type |-> KindAfter(Cardinality(RowsOf(conversations, contact_name))).message_type]} :
            /\ Cardinality(RowsOf(conversations, contact_name)) < RowLimit(contact_name)
            /\ Cardinality(RowsAt(contact_name, clock)) < MaxTied
            /\ \A k \in DOMAIN Get(current_conversations, contact_name, <<>>) :
                   ~Unsaved(current_conversations[contact_name][k])
            /\ current_conversations' =
                   add_message(current_conversations, contact_name, message,
                               max_context_messages)
            /\ conversations' = IF db_ok THEN _save_to_db(conversations, contact_name, message)
                                ELSE conversations
            /\ last' = [op |-> "add_message", contact_name |-> contact_name,
                        raised |-> ~db_ok,
                        run |-> RunAfter(contact_name, db_ok),
                        start |-> IF RunAfter(contact_name, db_ok) > 1 THEN last.start
                                  ELSE Cardinality(RowsOf(conversations, contact_name))]
    /\ UNCHANGED <<config_file, classifier, max_context_messages, conversation_context,
                   preferences, clock>>

\* ConversationMemory._load_recent_messages(contact_name)
LoadRecentMessages ==
    /\ \E contact_name \in Contacts :
         \E order \in DescOrders(conversations, RowsOf(conversations, contact_name)) :
            /\ current_conversations' =
                   Put(current_conversations, contact_name,
                       _load_recent_messages(conversations, order, max_context_messages))
            /\ last' = [op |-> "_load_recent_messages", contact_name |-> contact_name]
    /\ UNCHANGED <<config_file, classifier, max_context_messages, conversations,
                   conversation_context, preferences, clock>>

\* the cache get_conversation_context works on: loaded when the contact
\* has no entry
Loaded(contact_name, order) ==
    IF contact_name \in DOMAIN current_conversations THEN current_conversations
    ELSE Put(current_conversations, contact_name,
             _load_recent_messages(conversations, order, max_context_messages))

\* ConversationMemory.get_conversation_context(contact_name, include_system_prompt)
GetConversationContext ==
    /\ \E contact_name \in Contacts, include_system_prompt \in BOOLEAN :
         \E cache \in {Loaded(contact_name, order) :
                          order \in DescOrders(conversations,
                                               RowsOf(conversations, contact_name))},
            memo \in {_get_conversation_summary(conversation_context, conversations,
                                                contact_name, clock, order) :
                          order \in DescOrders(conversations,
                                               RowsOf(conversations, contact_name))} :
            /\ current_conversations' = cache
            /\ conversation_context' = IF include_system_prompt THEN memo.context
                                       ELSE conversation_context
            /\ last' = [op |-> "get_conversation_context", contact_name |-> contact_name,
                        include_system_prompt |-> include_system_prompt,
                        result |-> get_conversation_context(cache, contact_name,
                                       include_system_prompt, max_context_messages,
                                       memo.summary)]
    /\ UNCHANGED <<config_file, classifier, max_context_messages, conversations,
                   preferences, clock>>

\* the process ends and starts again: the cache is lost, the database stays
Restart ==
    /\ current_conversations # <<>>
    /\ current_conversations' = <<>>
    /\ last' = [op |-> "restart", contact_name |-> ""]
    /\ UNCHANGED <<config_file, classifier, max_context_messages, conversations,
                   conversation_context, preferences, clock>>

\* time passes
Tick ==
    /\ clock < MaxClock
    /\ clock' = clock + 1
    /\ UNCHANGED <<config_file, classifier, max_context_messages, conversations,
                   conversation_context, current_conversations, preferences, last>>

NextMemory == AddMessage \/ LoadRecentMessages \/ GetConversationContext \/ Restart \/ Tick

SpecMemory == InitMemory /\ [][NextMemory]_vars

(***************************************************************************)
(* Claims about ConversationMemory                                         *)
(***************************************************************************)
\* the elements of a set of rowids in ascending order: the order of insertion
Ascending(S) == [k \in 1..Cardinality(S) |-> CHOOSE i \in S : Cardinality({j \in S : j <= i}) = k]
\* the m rows of a contact inserted last, as messages, in the order of insertion
LastInserted(contact_name, m) ==
    [k \in 1..m |->
        MessageOfRow(conversations[Ascending(RowsOf(conversations, contact_name))
                        [Cardinality(RowsOf(conversations, contact_name)) - m + k]])]
Smaller(a, b) == IF a < b THEN a ELSE b

\* C2: after 2W+1 add_message calls in a row for a contact whose cache was
\* empty, the cache holds the W messages added last, in the order they were
\* added, and the store holds the rows it held before and all 2W+1 messages
C2_CacheKeepsWindow ==
    (last.op = "add_message" /\ last.run = 2 * max_context_messages + 1) =>
        /\ Cardinality(RowsOf(conversations, last.contact_name))
              = last.start + 2 * max_context_messages + 1
        /\ current_conversations[last.contact_name]
              = LastInserted(last.contact_name, max_context_messages)

\* the 2W+1 calls made with the widest window, some at one clock reading
\* and some at another
C2_Witness ==
    /\ last.op = "add_message"
    /\ max_context_messages = MaxWindow
    /\ last.run = 2 * max_context_messages + 1
    /\ Len(current_conversations[last.contact_name]) = MaxWindow
    /\ clock > 0

\* C3: _load_recent_messages puts in the cache the min(W, n) rows of the
\* contact inserted last, in the order of insertion, rows with equal
\* timestamps included
C3_LoadedInInsertionOrder ==
    last.op = "_load_recent_messages" =>
        current_conversations[last.contact_name]
            = LastInserted(last.contact_name,
                           Smaller(max_context_messages,
                                   Cardinality(RowsOf(conversations, last.contact_name))))

\* C10: get_conversation_context returns one system turn first when the
\* system prompt is asked for and none otherwise, then the at most W last
\* messages of the contact's cache, in the order of the cache, which is the
\* order of their timestamps, a message of the user with role user and a
\* message of the bot with role assistant
C10_ContextShape ==
    last.op = "get_conversation_context" =>
        LET W == max_context_messages
            cached == current_conversations[last.contact_name]
            recent == SubSeq(cached, Len(cached) - Smaller(W, Len(cached)) + 1, Len(cached))
            turns == IF last.include_system_prompt THEN Tail(last.result) ELSE last.result
        IN  /\ last.include_system_prompt =>
                  (last.result # <<>> /\ last.result[1].role = "system")
            /\ Len(turns) = Len(recent)
            /\ Len(turns) <= W
            /\ \A k \in 1..Len(turns) :
                  /\ turns[k].content = recent[k].content
                  /\ recent[k].sender = "user" => turns[k].role = "user"
                  /\ recent[k].sender = "bot" => turns[k].role = "assistant"
                  /\ turns[k].role # "system"
            /\ \A k \in 1..(Len(recent) - 1) : recent[k].timestamp <= recent[k + 1].timestamp

\* a context with the system turn, made from a cache that holds more than
\* W messages, with a turn of the user and a turn of the assistant
C10_Witness ==
    /\ last.op = "get_conversation_context"
    /\ last.include_system_prompt
    /\ Len(current_conversations[last.contact_name]) > max_context_messages
    /\ Len(last.result) = max_context_messages + 1
    /\ \E i, j \in 2..Len(last.result) :
          last.result[i].role = "user" /\ last.result[j].role = "assistant"

(***************************************************************************)
(* The functions handle_message calls.  The work of one handle_message is  *)
(* a record b: the cache, the rows, the summaries and the preferences as   *)
(* they are so far, the clock, the response and its type, the calls made   *)
(* to the services, the metrics logged, and whether an exception left the  *)
(* handler (raised); a step does nothing once raised.                      *)
(***************************************************************************)
\* str.upper
UpperChar(c) == IF \E i \in 1..26 : LowerChars[i] = c
                THEN UpperChars[CHOOSE i \in 1..26 : LowerChars[i] = c] ELSE c
Upper(s) == [i \in 1..Len(s) |-> UpperChar(s[i])]

ending_phrases == << <<"t","h","a","t","'","s"," ","a","l","l"," ","f","o","r"," ","t","o","d","a","y">>, <<"b","y","e">>, <<"g","o","o","d","b","y","e">>, <<"t","a","l","k"," ","l","a","t","e","r">>,
                     <<"t","h","a","n","k","s",","," ","t","h","a","t","'","s"," ","e","n","o","u","g","h">>, <<"s","e","e"," ","y","o","u"," ","l","a","t","e","r">>, <<"g","o","t","t","a"," ","g","o">> >>

is_conversation_ending(message) ==
    \E i \in 1..Len(ending_phrases) : Contains(Lower(message), ending_phrases[i])

handle_conversation_ending(message) ==
    <<"It was great chatting with you. Feel free to reach out whenever you'd like to discuss more news or topics. Have a great day!">>

\* strftime("%B %d, %Y")
StrfBdY(t) ==
    <<UpperChar(MonthNames[t.m][1])>> \o Tail(MonthNames[t.m])
    \o <<" ", Digit(t.d \div 10), Digit(t.d % 10), ",", " ",
         Digit(t.y \div 1000), Digit((t.y \div 100) % 10), Digit((t.y \div 10) % 10),
         Digit(t.y % 10)>>
\* get_current_date(), now being the clock
get_current_date(now) == StrfBdY(FromOrdinal(Epoch + (now \div 24)))

\* the loop of classify_multiple_intents, from item i on
Detected(intent_name, score, threshold) ==
    IF FAtLeast(score, threshold) THEN <<[intent |-> intent_name, score |-> score]>> ELSE <<>>
RECURSIVE DetectedFrom(_, _, _)
DetectedFrom(cfg, message_lower, i) ==
    IF i > Len(cfg.intents) THEN <<>>
    ELSE Detected(cfg.intents[i].name,
                  _calculate_intent_score(cfg.settings, message_lower, cfg.intents[i].config),
                  ThresholdOf(cfg.settings, cfg.intents[i].config))
         \o DetectedFrom(cfg, message_lower, i + 1)

\* detected_intents.sort(key=lambda x: x[1], reverse=True): stable
InsertByScore(sorted, x) ==
    SubSeq(sorted, 1, Cardinality({k \in 1..Len(sorted) : FLeq(x.score, sorted[k].score)}))
    \o <<x>>
    \o SubSeq(sorted, Cardinality({k \in 1..Len(sorted) : FLeq(x.score, sorted[k].score)}) + 1,
              Len(sorted))
RECURSIVE SortedByScore(_)
SortedByScore(list) ==
    IF list = <<>> THEN <<>>
    ELSE InsertByScore(SortedByScore(SubSeq(list, 1, Len(list) - 1)), list[Len(list)])

\* IntentClassifier.classify_multiple_intents(message)
classify_multiple_intents(cfg, message) ==
    IF Strip(message) = <<>> THEN <<>>
    ELSE SortedByScore(DetectedFrom(cfg, Strip(Lower(message)), 1))

\* what the classifier says of a message: classify_intent,
\* classify_multiple_intents and is_news_pattern, which depend on nothing else
Classified(cfg, message) ==
    [intent  |-> classify_intent(cfg, message).intent,
     intents |-> classify_multiple_intents(cfg, message),
     news    |-> is_news_pattern(cfg, message)]

\* the responses of handle_multiple_intents, from intent k on
RECURSIVE responses(_, _, _)
responses(intents, now, k) ==
    IF k > Len(intents) THEN <<>>
    ELSE (IF intents[k].intent = "date_request"
          THEN << <<"Today is ">> \o get_current_date(now) \o <<".">> >>
          ELSE IF intents[k].intent = "name_request"
          THEN << <<"I don't have a personal name, but you can call me Assistant or AI for short.">> >>
          ELSE IF intents[k].intent = "capability_question"
          THEN << <<"I'm an AI assistant with access to news articles from Kenyan sources.">> >>
          ELSE <<>>)
         \o responses(intents, now, k + 1)

\* handle_multiple_intents(message), intents being what
\* classify_multiple_intents returned
handle_multiple_intents(intents, now) ==
    IF Len(intents) <= 1 \/ responses(intents, now, 1) = <<>> THEN None
    ELSE Join(<<" ">>, responses(intents, now, 1))

handle_correction(message) ==
    <<"Thank you for the correction! I appreciate you helping me provide accurate information. I'll keep that in mind for our conversation. Is there anything else you'd like to discuss?">>

\* the work of a handle_message that starts
Begin(cache, rows, context, prefs, now) ==
    [cache |-> cache, rows |-> rows, context |-> context, prefs |-> prefs, clock |-> now,
     raised |-> FALSE, response |-> None, message_type |-> "", is_news |-> FALSE,
     calls |-> <<>>, metrics |-> <<>>]

Respond(b, text) == [b EXCEPT !.response = text]
Typed(b, message_type) == [b EXCEPT !.message_type = message_type]
Called(b, to, arg) == [b EXCEPT !.calls = Append(@, [to |-> to, arg |-> arg])]
Raise(b) == [b EXCEPT !.raised = TRUE]

\* the outcome of a call that raised
Unreachable == <<"<raise>">>

\* is_news_query_llm(message): the capability question, the news pattern,
\* and the classifier service for the rest, whose exception is not caught;
\* answer is what the service returns when it is asked
is_news_query_llm(b, message, c, answer) ==
    IF b.raised THEN b
    ELSE IF c.intent = "capability_question" THEN [b EXCEPT !.is_news = FALSE]
    ELSE IF c.news THEN [b EXCEPT !.is_news = TRUE]
    ELSE IF answer = Unreachable THEN Raise(Called(b, "categorize", message))
    ELSE [Called(b, "categorize", message) EXCEPT
             !.is_news = StartsWith(Upper(Strip(answer)), <<"Y", "E", "S">>)]

\* samba_general_chat(message) after handle_multiple_intents returned multi;
\* chat is the outcome of client_samba.chat.completions.create
GeneralChat(b, message, c, chat, multi) ==
    IF multi # None /\ multi # <<>> THEN Respond(b, multi)
    ELSE IF c.intent = "date_request"
    THEN Respond(b, <<"Today is ">> \o get_current_date(b.clock) \o <<".">>)
    ELSE IF c.intent = "name_request"
    THEN Respond(b, <<"I don't have a personal name, but you can call me Assistant or AI for short. Some people also like to give me nicknames, so feel free to get creative if you'd like!">>)
    ELSE IF c.intent = "capability_question"
    THEN Respond(b, <<"I'm an AI assistant with access to news articles from sources like People Daily, Standard Media, and other Kenyan news outlets. I can search through and summarize recent news content for you. However, I don't have real-time access to current events or personal experiences - my knowledge comes from the articles in my database. What would you like to know about?">>)
    ELSE IF c.intent = "correction" THEN Respond(b, handle_correction(message))
    ELSE IF chat.ok THEN Respond(Called(b, "chat", message), Strip(chat.content))
    ELSE Raise(Called(b, "chat", message))

samba_general_chat(b, message, c, chat) ==
    IF b.raised THEN b
    ELSE GeneralChat(b, message, c, chat, handle_multiple_intents(c.intents, b.clock))

\* the place of the first of the words more, further, else, also that has a
\* word after it, 0 when there is none
FirstIndicator(words) ==
    IF \E i \in 1..(Len(words) - 1) : words[i] \in { <<"m","o","r","e">>, <<"f","u","r","t","h","e","r">>, <<"e","l","s","e">>, <<"a","l","s","o">> }
    THEN CHOOSE i \in 1..(Len(words) - 1) :
            /\ words[i] \in { <<"m","o","r","e">>, <<"f","u","r","t","h","e","r">>, <<"e","l","s","e">>, <<"a","l","s","o">> }
            /\ \A j \in 1..(i - 1) : words[j] \notin { <<"m","o","r","e">>, <<"f","u","r","t","h","e","r">>, <<"e","l","s","e">>, <<"a","l","s","o">> }
    ELSE 0

\* handle_follow_up_question(message, context)
FollowUpQuery(words, i) ==
    IF i > 0 /\ Join(<<" ">>, SubSeq(words, i + 1, Len(words))) # <<>>
    THEN <<"K","e","n","y","a"," ">> \o Join(<<" ">>, SubSeq(words, i + 1, Len(words)))
    ELSE <<"I","'","d"," ","b","e"," ","h","a","p","p","y">> \o <<" to provide more details. Could you specify what aspect you'd like me to elaborate on?">>
handle_follow_up_question(message, context) ==
    FollowUpQuery(Split(Lower(message)), FirstIndicator(Split(Lower(message))))

\* UserPreferences.track_interest(contact_name, topic)
track_interest(prefs, contact_name, topic) ==
    Put(prefs, <<contact_name, topic>>, Get(prefs, <<contact_name, topic>>, 0) + 1)

(***************************************************************************)
(* MemoryEnabledWhatsAppBot.handle_message.  What the services answer, the *)
(* random number and the tie order of the store are not the bot's to       *)
(* choose: handle_message is the set of the outcomes they allow.           *)
(***************************************************************************)
\* Message(timestamp, sender, content, message_type)
Message(timestamp, sender, content, message_type) ==
    [timestamp |-> timestamp, sender |-> sender, content |-> content,
     message_type |-> message_type]

\* self.memory.add_message(contact_name, sender, content, message_type) at
\* the reading b.clock of datetime.now(); the next reading is later
Remembered(b, contact_name, message, W) ==
    IF b.raised THEN b
    ELSE [b EXCEPT !.cache = add_message(b.cache, contact_name, message, W),
                   !.rows = _save_to_db(b.rows, contact_name, message),
                   !.clock = @ + 1]

\* the bot's response stored
RememberedBot(b, contact_name, W) ==
    Remembered(b, contact_name, Message(b.clock, "bot", b.response, b.message_type), W)

\* self.enhance_response_quality(response, message_type)
Enhanced(b, random) ==
    IF b.raised THEN b
    ELSE [b EXCEPT !.response = enhance_response_quality(@, b.message_type, random)]

\* the metrics once is_news_query_llm has returned
Logged(b, message) ==
    IF b.raised THEN b
    ELSE [b EXCEPT !.metrics = <<[message_length  |-> TextLen(message),
                                  response_length |-> TextLen(b.response),
                                  message_type    |-> IF b.is_news THEN "news" ELSE "chat"]>>]

\* MemoryEnabledWhatsAppBot.log_conversation_metrics: it asks
\* is_news_query_llm again
log_conversation_metrics(b, message, c, answer) ==
    Logged(is_news_query_llm(b, message, c, answer), message)

\* both messages stored with the type of b, the response as it is: the end
\* of steps 1 and 3
StoredPlain(b, contact_name, message, W) ==
    RememberedBot(Remembered(b, contact_name,
                             Message(b.clock, "user", message, b.message_type), W),
                  contact_name, W)

\* step 7 with the response stored as chat whatever the type of the exchange
StoredResponseAsChat(b, contact_name, message, random, W) ==
    RememberedBot(Typed(Enhanced(Remembered(b, contact_name,
                                            Message(b.clock, "user", message, b.message_type), W),
                                 random),
                        "chat"),
                  contact_name, W)

\* step 7: the user's message stored, the response enhanced and stored
Stored(b, contact_name, message, random, W) ==
    RememberedBot(Enhanced(Remembered(b, contact_name,
                                      Message(b.clock, "user", message, b.message_type), W),
                           random),
                  contact_name, W)

\* self.news_agent.search_and_summarize_time_aware(query) and the offer added
Searched(b, query, news, offer) ==
    IF b.raised THEN b
    ELSE Respond(Called(b, "search", query),
                 search_and_summarize_time_aware(query, Epoch + (b.clock \div 24),
                     news.samba_client, news.search, news.completions)
                 \o offer)

\* the follow-up to news: search_query is what handle_follow_up_question gave
FollowedUp(b, search_query, news) ==
    IF search_query # <<>> /\ ~StartsWith(search_query, <<"I","'","d"," ","b","e"," ","h","a","p","p","y">>)
    THEN Searched(b, search_query, news,
                  <<"\n\nIs there anything specific about this topic you'd like me to explore further?">>)
    ELSE Respond(b, search_query)

\* steps 5 and 6, is_news_query_llm having returned
Decided(b, contact_name, message, c, chat, news) ==
    IF b.raised THEN b
    ELSE IF b.is_news
    THEN Typed(Searched([b EXCEPT !.prefs = track_interest(@, contact_name, message)],
                        message, news,
                        <<"\n\nWould you like me to look into any specific aspect of this topic?">>),
               "news")
    ELSE Typed(samba_general_chat(b, message, c, chat), "chat")

\* steps 4 to 6, b holding the cache and the summaries as
\* get_conversation_context left them and context being what it returned
Routed(b, contact_name, message, c, answer, chat, news, context) ==
    IF c.intent = "follow_up"
    THEN IF /\ Get(b.cache, contact_name, <<>>) # <<>>
            /\ b.cache[contact_name][Len(b.cache[contact_name])].message_type = "news"
         THEN Typed(FollowedUp(b, handle_follow_up_question(message, context), news), "news")
         ELSE Typed(samba_general_chat(b, message, c, chat), "chat")
    ELSE Decided(is_news_query_llm(b, message, c, answer), contact_name, message, c, chat, news)

\* what the services can answer
Answers == { <<"Y","e","s",".">>, <<" ","n","o">>, Unreachable }
Reply == [ok |-> TRUE, content |-> <<" ", "<reply>">>]
Chats == {Failed, Reply}
NewsEnvs == {e \in SearchEnvs : e.samba_client /\ e.search.ok = (e.search.hits = <<Hit1>>)}

\* the calls of log_conversation_metrics that end handle_message
Logs(B, message, c) ==
    {log_conversation_metrics(b, message, c, answer) : b \in B, answer \in Answers}

special_intents == {"date_request", "name_request", "capability_question", "correction"}

\* MemoryEnabledWhatsAppBot.handle_message(contact_name, message): its
\* outcomes.  c is what the classifier says of the message; loaded and memo
\* are the cache and the summary get_conversation_context makes of the store
handle_message(b, contact_name, message, c, W, loaded, memo) ==
    IF is_conversation_ending(message)
    THEN Logs({StoredPlain(Typed(Respond(b, handle_conversation_ending(message)), "chat"),
                           contact_name, message, W)},
              message, c)
    ELSE IF c.intent \in special_intents
    THEN Logs({StoredPlain(Typed(samba_general_chat(b, message, c, chat), "chat"),
                           contact_name, message, W) : chat \in Chats},
              message, c)
    ELSE Logs({Stored(r, contact_name, message, random, W) :
                  r \in {Routed([b EXCEPT !.cache = loaded, !.context = memo.context],
                                contact_name, message, c, answer, chat, news,
                                get_conversation_context(loaded, contact_name, TRUE, W,
                                                         memo.summary)) :
                            answer \in Answers, chat \in Chats, news \in NewsEnvs},
                  random \in RandomValues},
              message, c)

(***************************************************************************)
(* SpecBot: one contact writes to the bot.  The services answer as they    *)
(* like or fail, and the process may be started again between two          *)
(* messages.                                                               *)
(***************************************************************************)
MaxHandled == 2

BotMessages == { <<"b","y","e">>, <<"T","a","l","k"," ","l","a","t","e","r">>, <<"B","y","e"," ","y","o","u","r"," ","n","a","m","e">>, <<"b","y","e"," ","l","a","t","e","s","t"," ","n","e","w","s">>,
                 <<"n","e","w","s"," ","s","o","u","r","c","e","s","?"," ","B","Y","E">>, <<"y","o","u","r"," ","n","a","m","e"," ","d","a","t","e"," ","n","o","w">>, <<"l","a","t","e","s","t"," ","n","e","w","s">>,
                 <<"h","e","l","l","o">>, <<"a","l","s","o"," ","f","l","o","o","d","s">>, <<"w","h","a","t"," ","e","l","s","e">>, <<"w","r","o","n","g">> }

InitBot ==
    /\ config_file = MissingFile
    /\ classifier = load_config(config_file)
    /\ max_context_messages = 8
    /\ conversations = <<>>
    /\ conversation_context = <<>>
    /\ current_conversations = <<>>
    /\ preferences = <<>>
    /\ clock = 0
    /\ last = [op |-> "__init__", contact_name |-> "", message |-> <<>>, intent |-> "",
               now |-> 0, before |-> 0, context |-> <<>>, raised |-> FALSE, response |-> None, message_type |-> "",
               calls |-> <<>>, metrics |-> <<>>, returned |-> 0, all_returned |-> TRUE]

\* a message of the contact is handled: last holds the call, what
\* classify_intent says of the message, the clock and the number of rows
\* before it, the context get_conversation_context makes for it, what it
\* returned or that it raised, the calls to the services and the metrics,
\* how many calls have returned so far and whether all of them did
HandleMessage ==
    /\ \E contact_name \in Contacts :
         /\ Cardinality(RowsOf(conversations, contact_name)) < 2 * MaxHandled
         /\ \E loaded \in {Loaded(contact_name, order) :
                              order \in DescOrders(conversations,
                                                   RowsOf(conversations, contact_name))},
               memo \in {_get_conversation_summary(conversation_context, conversations,
                                                   contact_name, clock, order) :
                              order \in DescOrders(conversations,
                                                   RowsOf(conversations, contact_name))},
               message \in BotMessages :
              \E c \in {Classified(classifier, message)} :
                \E b \in handle_message(Begin(current_conversations, conversations,
                                              conversation_context, preferences, clock),
                                        contact_name, message, c,
                                        max_context_messages, loaded, memo) :
                   /\ current_conversations' = b.cache
                   /\ conversations' = b.rows
                   /\ conversation_context' = b.context
                   /\ preferences' = b.prefs
                   /\ clock' = b.clock
                   /\ last' = [op |-> "handle_message", contact_name |-> contact_name,
                               message |-> message, intent |-> c.intent,
                               now |-> clock, before |-> Len(conversations),
                               context |-> get_conversation_context(loaded, contact_name,
                                               TRUE, max_context_messages, memo.summary),
                               raised |-> b.raised,
                               response |-> IF b.raised THEN None ELSE b.response,
                               message_type |-> b.message_type,
                               calls |-> b.calls, metrics |-> b.metrics,
                               returned |-> last.returned + (IF b.raised THEN 0 ELSE 1),
                               all_returned |-> last.all_returned /\ ~b.raised]
    /\ UNCHANGED <<config_file, classifier, max_context_messages>>

\* the process ends and starts again between two messages
RestartBot ==
    /\ current_conversations # <<>>
    /\ current_conversations' = <<>>
    /\ last' = [last EXCEPT !.op = "restart"]
    /\ UNCHANGED <<config_file, classifier, max_context_messages, conversations,
                   conversation_context, preferences, clock>>

NextBot == HandleMessage \/ RestartBot

SpecBot == InitBot /\ [][NextBot]_vars

(***************************************************************************)
(* Claims about handle_message                                             *)
(***************************************************************************)
\* the rows the last handle_message added to table conversations
RowsAdded == SubSeq(conversations, last.before + 1, Len(conversations))

\* a row of the contact of the last call, but for its timestamp
IsRow(row, sender, content, message_type) ==
    /\ row.contact_name = last.contact_name
    /\ row.sender = sender
    /\ row.content = content
    /\ row.message_type = message_type

\* C1: for every message that contains one of the ending phrases, in any
\* case, handle_message returns the fixed closing text to the caller, and
\* exactly the user's message and the closing response are stored for the
\* contact, both with type chat, whatever the classifier, the news patterns
\* and the services say of the message.
C1_EndingReturnsClosingText ==
    (last.op = "handle_message" /\ is_conversation_ending(last.message)) =>
        /\ ~last.raised
        /\ last.response = handle_conversation_ending(last.message)
        /\ Len(RowsAdded) = 2
        /\ IsRow(RowsAdded[1], "user", last.message, "chat")
        /\ IsRow(RowsAdded[2], "bot", handle_conversation_ending(last.message), "chat")

(***************************************************************************)
(* SpecSummary: the stored summary of a contact.  Messages are added, the  *)
(* summary is requested, old rows are cleared, and about a day passes      *)
(* between two calls.                                                      *)
(***************************************************************************)
MaxHours == 49

\* the rows clear_old_conversations keeps, from row i on: those whose
\* timestamp is not before the cutoff, as texts
RECURSIVE KeptFrom(_, _, _)
KeptFrom(rows, cutoff, i) ==
    IF i > Len(rows) THEN <<>>
    ELSE (IF TextLess(rows[i].timestamp, cutoff) THEN <<>> ELSE <<rows[i]>>)
         \o KeptFrom(rows, cutoff, i + 1)

\* ConversationMemory.clear_old_conversations(days_old)
clear_old_conversations(rows, now, days_old) ==
    KeptFrom(rows, isoformat(now - 24 * days_old), 1)

InitSummary ==
    /\ config_file = "missing"
    /\ classifier = DefaultConfig
    /\ max_context_messages = 1
    /\ conversations \in PriorRows
    /\ conversation_context = <<>>
    /\ current_conversations = <<>>
    /\ preferences = <<>>
    /\ clock = 0
    /\ last = [op |-> "__init__", contact_name |-> "", run |-> 0, start |-> 0]

\* ConversationMemory._get_conversation_summary(contact_name): last holds
\* the reading of the clock, table conversation_context as it was before
\* the call, and the summary returned
GetConversationSummary ==
    /\ \E contact_name \in Contacts :
         \E memo \in {_get_conversation_summary(conversation_context, conversations,
                                                contact_name, clock, order) :
                          order \in DescOrders(conversations,
                                               RowsOf(conversations, contact_name))} :
            /\ conversation_context' = memo.context
            /\ last' = [op |-> "_get_conversation_summary", contact_name |-> contact_name,
                        now |-> clock, before |-> conversation_context,
                        result |-> memo.summary]
    /\ UNCHANGED <<config_file, classifier, max_context_messages, conversations,
                   current_conversations, preferences, clock>>

\* ConversationMemory.clear_old_conversations(days_old), when it deletes
ClearOldConversations ==
    /\ \E days_old \in {0, 1} :
         /\ clear_old_conversations(conversations, clock, days_old) # conversations
         /\ conversations' = clear_old_conversations(conversations, clock, days_old)
    /\ last' = [op |-> "clear_old_conversations", contact_name |-> ""]
    /\ UNCHANGED <<config_file, classifier, max_context_messages, conversation_context,
                   current_conversations, preferences, clock>>

\* a day passes, an hour less or an hour more
Wait ==
    /\ \E hours \in {23, 24, 25} :
         /\ clock + hours <= MaxHours
         /\ clock' = clock + hours
    /\ UNCHANGED <<config_file, classifier, max_context_messages, conversations,
                   conversation_context, current_conversations, preferences, last>>

NextSummary == AddMessage \/ GetConversationSummary \/ ClearOldConversations \/ Wait

SpecSummary == InitSummary /\ [][NextSummary]_vars

(***************************************************************************)
(* Claims about the stored summary                                         *)
(***************************************************************************)
\* the summary the last request found stored was less than 24 hours old
FoundFresh ==
    /\ last.contact_name \in DOMAIN last.before
    /\ last.now - fromisoformat(last.before[last.contact_name].last_updated) < 24

\* the last request wrote the summary it returned, with the time of the call
WrittenBack ==
    /\ DOMAIN conversation_context = DOMAIN last.before \cup {last.contact_name}
    /\ conversation_context[last.contact_name]
          = [context_summary |-> last.result, last_updated |-> isoformat(last.now)]
    /\ \A k \in DOMAIN last.before \ {last.contact_name} :
          conversation_context[k] = last.before[k]

\* a request made now returns what the last request returned and writes
\* nothing, whatever order the store returns tied rows in
Reused ==
    \A order \in DescOrders(conversations, RowsOf(conversations, last.contact_name)) :
        _get_conversation_summary(conversation_context, conversations, last.contact_name,
                                  clock, order)
            = [summary |-> last.result, context |-> conversation_context]

\* C11 as stated: a stored summary less than 24 hours old is returned as it is
\* and nothing is written, even if messages were added since; otherwise the
\* summary is made again and written back with the time of the call, and a
\* request that follows at once reuses it.
C11_SummaryReusedOrWrittenBack ==
    last.op = "_get_conversation_summary" =>
        IF FoundFresh
        THEN /\ last.result = last.before[last.contact_name].context_summary
             /\ conversation_context = last.before
        ELSE /\ WrittenBack
             /\ clock = last.now => Reused

\* C11 as the code has it: the summary made again is written back when the
\* contact has a row in the store; when it has none the fixed no-history text
\* is returned and nothing is written.
C11_SummaryWrittenBackWhenRows ==
    last.op = "_get_conversation_summary" =>
        IF FoundFresh
        THEN /\ last.result = last.before[last.contact_name].context_summary
             /\ conversation_context = last.before
        ELSE IF RowsOf(conversations, last.contact_name) # {}
        THEN /\ WrittenBack
             /\ clock = last.now => Reused
        ELSE /\ last.result = <<"No previous conversation history.">>
             /\ conversation_context = last.before

\* a summary exactly 24 hours old was found and another one, which tells of
\* messages added since, was returned
C11_Witness ==
    /\ last.op = "_get_conversation_summary"
    /\ last.contact_name \in DOMAIN last.before
    /\ last.now - fromisoformat(last.before[last.contact_name].last_updated) = 24
    /\ last.result # last.before[last.contact_name].context_summary
    /\ RowsOf(conversations, last.contact_name) # {}

(***************************************************************************)
(* SpecLoop: the program's main loop.  One thread polls the chat of one    *)
(* contact and calls handle_message for a message that differs from the    *)
(* one it handled last.  handle_message is followed through its steps:     *)
(* the response is made, the user's message is stored, the response is     *)
(* stored, the metrics are logged.  The contact may write at any moment.   *)
(* An exception is caught nowhere and ends the loop.  last holds the        *)
(* position of the thread (op), its locals, the message the browser shows  *)
(* last (incoming) and the record of every handle_message so far.          *)
(***************************************************************************)
MaxArrived == 3

contact_name == "alice"
LoopMessages == { <<"b","y","e">>, <<"h","e","l","l","o">> }

InitLoop ==
    /\ config_file = "missing"
    /\ classifier = DefaultConfig
    /\ max_context_messages = 8
    /\ conversations = <<>>
    /\ conversation_context = <<>>
    /\ current_conversations = <<>>
    /\ preferences = <<>>
    /\ clock = 0
    /\ last = [op |-> "poll", arrived |-> 0, incoming |-> None,
               last_seen_msg |-> None, last_msg |-> None, response |-> None,
               message_type |-> "", handled |-> <<>>]

\* the handle_message in progress is the one entered last
InHandler == last.op \in {"handle_message", "add_user", "add_bot", "log"}
Ended(state) == [last EXCEPT !.handled[Len(last.handled)].state = state]
Committed == [last EXCEPT !.handled[Len(last.handled)].rows = @ + 1]

\* the contact writes a message: the browser shows it as the last incoming
Arrive ==
    /\ last.arrived < MaxArrived
    /\ \E message \in LoopMessages :
         last' = [(IF InHandler
                   THEN [last EXCEPT !.handled[Len(last.handled)].overtaken = TRUE]
                   ELSE last)
                  EXCEPT !.arrived = @ + 1, !.incoming = message]
    /\ UNCHANGED <<config_file, classifier, max_context_messages, conversations,
                   conversation_context, current_conversations, preferences, clock>>

\* a message handled at whatever the position of the thread, as by a
\* handler started for every message seen
get_last_incoming_message_any ==
    /\ last.op # "exited"
    /\ last.incoming # None /\ last.incoming # last.last_seen_msg
    /\ last' = [last EXCEPT !.last_msg = last.incoming, !.op = "handle_message",
                            !.handled = Append(@, [message |-> last.incoming,
                                                   state |-> "running", rows |-> 0,
                                                   overtaken |-> FALSE])]
    /\ UNCHANGED <<config_file, classifier, max_context_messages, conversations,
                   conversation_context, current_conversations, preferences, clock>>

\* last_msg = get_last_incoming_message(driver) and the test of it: a new
\* message enters handle_message, otherwise the thread sleeps
get_last_incoming_message ==
    /\ last.op = "poll"
    /\ last' = IF last.incoming # None /\ last.incoming # last.last_seen_msg
               THEN [last EXCEPT !.last_msg = last.incoming, !.op = "handle_message",
                                 !.handled = Append(@, [message |-> last.incoming,
                                                        state |-> "running", rows |-> 0,
                                                        overtaken |-> FALSE])]
               ELSE [last EXCEPT !.last_msg = last.incoming, !.op = "sleep"]
    /\ UNCHANGED <<config_file, classifier, max_context_messages, conversations,
                   conversation_context, current_conversations, preferences, clock>>

\* handle_message up to its first add_message: the response and its type
\* are made.  The closing text needs no service; any other response needs
\* one, whose exception is not caught
MakeResponse ==
    /\ last.op = "handle_message"
    /\ \E ok \in (IF is_conversation_ending(last.last_msg) THEN {TRUE} ELSE BOOLEAN),
          message_type \in (IF is_conversation_ending(last.last_msg) THEN {"chat"}
                            ELSE {"chat", "news"}) :
         last' = IF ~ok THEN [Ended("raised") EXCEPT !.op = "exited"]
                 ELSE [last EXCEPT !.op = "add_user",
                                   !.message_type = message_type,
                                   !.response = IF is_conversation_ending(last.last_msg)
                                                THEN handle_conversation_ending(last.last_msg)
                                                ELSE Reply.content]
    /\ UNCHANGED <<config_file, classifier, max_context_messages, conversations,
                   conversation_context, current_conversations, preferences, clock>>

\* self.memory.add_message(contact_name, sender, content, message_type) of
\* handle_message: the cache first, then the row, whose write may fail
AddOf(sender, content, db_ok, next) ==
    /\ current_conversations' =
           add_message(current_conversations, contact_name,
                       Message(clock, sender, content, last.message_type),
                       max_context_messages)
    /\ conversations' =
           IF db_ok THEN _save_to_db(conversations, contact_name,
                                     Message(clock, sender, content, last.message_type))
           ELSE conversations
    /\ clock' = clock + 1
    /\ last' = IF db_ok THEN [Committed EXCEPT !.op = next]
               ELSE [Ended("raised") EXCEPT !.op = "exited"]
    /\ UNCHANGED <<config_file, classifier, max_context_messages, conversation_context,
                   preferences>>

AddUser == last.op = "add_user" /\ \E db_ok \in BOOLEAN :
               AddOf("user", last.last_msg, db_ok, "add_bot")

AddBot == last.op = "add_bot" /\ \E db_ok \in BOOLEAN :
              AddOf("bot", last.response, db_ok, "log")

\* self.log_conversation_metrics(...) and the return of handle_message;
\* is_news_query_llm may ask the service, whose exception is not caught
LogMetrics ==
    /\ last.op = "log"
    /\ \E ok \in BOOLEAN :
         last' = IF ok THEN [Ended("returned") EXCEPT !.op = "send"]
                 ELSE [Ended("raised") EXCEPT !.op = "exited"]
    /\ UNCHANGED <<config_file, classifier, max_context_messages, conversations,
                   conversation_context, current_conversations, preferences, clock>>

\* send_whatsapp_message(driver, remove_non_bmp(response)) and
\* last_seen_msg = last_msg
send_whatsapp_message ==
    /\ last.op = "send"
    /\ last' = [last EXCEPT !.op = "sleep", !.last_seen_msg = last.last_msg]
    /\ UNCHANGED <<config_file, classifier, max_context_messages, conversations,
                   conversation_context, current_conversations, preferences, clock>>

\* time.sleep(5)
Sleep ==
    /\ last.op = "sleep"
    /\ last' = [last EXCEPT !.op = "poll"]
    /\ UNCHANGED <<config_file, classifier, max_context_messages, conversations,
                   conversation_context, current_conversations, preferences, clock>>

NextLoop == Arrive \/ get_last_incoming_message \/ MakeResponse \/ AddUser \/ AddBot
            \/ LogMetrics \/ send_whatsapp_message \/ Sleep

SpecLoop == InitLoop /\ [][NextLoop]_vars

\* the handle_message calls in progress
Running == {i \in DOMAIN last.handled : last.handled[i].state = "running"}
\* the rows every handle_message so far has stored are the contact's rows
RowsHandled ==
    SumSeq([i \in DOMAIN last.handled |-> last.handled[i].rows])
        = Cardinality(RowsOf(conversations, contact_name))

\* C14: at most one handle_message of the contact is in progress at any
\* time, and when the next message of the contact starts being handled the
\* handle_message before it has stored both of its messages.
C14_OneAtATime ==
    /\ Cardinality(Running) <= 1
    /\ RowsHandled
    /\ \A i \in DOMAIN last.handled :
          i < Len(last.handled) =>
              (last.handled[i].state = "returned" /\ last.handled[i].rows = 2)

\* a message came while another was being handled, and is handled after
\* that one returned with both of its rows stored
C14_Witness ==
    /\ Len(last.handled) >= 2
    /\ last.handled[1].state = "returned" /\ last.handled[1].overtaken
    /\ last.handled[1].rows = 2
    /\ last.handled[2].state = "running"
    /\ last.handled[2].message # last.handled[1].message

(***************************************************************************)
(* SpecRecap: the summary made again from the log.  Messages of several    *)
(* kinds are added for one contact, each at a later reading of the clock,  *)
(* and the summary is generated from what the log holds.                   *)
(***************************************************************************)
MaxRecap == 5

\* the kinds of message added: a news content, a chat content of more than
\* 20 characters, one of fewer, one of more than 100
RecapKinds == {"news", "topic", "short", "long"}
\* the content of the k-th row, of a kind
RecapContent(kind, k) ==
    IF kind = "news" THEN <<"n", Digit(k)>>
    ELSE IF kind = "topic" THEN <<"t", Digit(k)>> \o <<" ","i","s"," ","a"," ","t","o","p","i","c"," ","l","o","n","g"," ","e","n","o","u","g","h">>
    ELSE IF kind = "short" THEN <<"s", Digit(k)>>
    ELSE <<"T", Digit(k), "a filler of ninety characters a filler of ninety characters a filler of ninety characters ">>
         \o [i \in 1..9 |-> "x"]

InitRecap ==
    /\ config_file = "missing"
    /\ classifier = DefaultConfig
    /\ max_context_messages = 8
    /\ conversations = <<>>
    /\ conversation_context = <<>>
    /\ current_conversations = <<>>
    /\ preferences = <<>>
    /\ clock = 0
    /\ last = [op |-> "__init__", contact_name |-> ""]

\* ConversationMemory.add_message(contact_name, sender, content,
\* message_type), the user and the bot in turn
AddRecapMessage ==
    /\ Len(conversations) < MaxRecap
    /\ \E kind \in RecapKinds :
         \E message \in {Message(clock,
                                 IF Len(conversations) % 2 = 0 THEN "user" ELSE "bot",
                                 RecapContent(kind, Len(conversations) + 1),
                                 IF kind = "news" THEN "news" ELSE "chat")} :
            /\ current_conversations' = add_message(current_conversations, contact_name,
                                                    message, max_context_messages)
            /\ conversations' = _save_to_db(conversations, contact_name, message)
    /\ clock' = clock + 1
    /\ last' = [op |-> "add_message", contact_name |-> contact_name]
    /\ UNCHANGED <<config_file, classifier, max_context_messages, conversation_context,
                   preferences>>

\* ConversationMemory._generate_conversation_summary(contact_name)
GenerateConversationSummary ==
    /\ \E memo \in {_generate_conversation_summary(conversation_context, conversations,
                                                   contact_name, clock, order) :
                       order \in DescOrders(conversations,
                                            RowsOf(conversations, contact_name))} :
         /\ conversation_context' = memo.context
         /\ last' = [op |-> "_generate_conversation_summary",
                     contact_name |-> contact_name, result |-> memo.summary]
    /\ UNCHANGED <<config_file, classifier, max_context_messages, conversations,
                   current_conversations, preferences, clock>>

NextRecap == AddRecapMessage \/ GenerateConversationSummary

SpecRecap == InitRecap /\ [][NextRecap]_vars

\* the contact's rows, the most recent first, at most 50 of them
MostRecentFirst ==
    Limit(CHOOSE order \in DescOrders(conversations, RowsOf(conversations, last.contact_name)) :
              TRUE, 50)

\* C23: a summary made again is built from the 50 most recent messages of
\* the contact and names the up to 3 most recent news contents among them
\* and the up to 3 most recent other contents longer than 20 characters,
\* cut to 100 characters: no older qualifying message is listed while a more
\* recent one is left out.
C23_SummaryOfMostRecent ==
    (last.op = "_generate_conversation_summary"
        /\ RowsOf(conversations, last.contact_name) # {}) =>
        last.result = SummaryText(last.contact_name,
                                  Limit(news_queries(conversations, MostRecentFirst, 1), 3),
                                  Limit(topics(conversations, MostRecentFirst, 1), 3))

(***************************************************************************)
(* SpecCalls: the main loop with handle_message followed from one call of  *)
(* a service to the next.  A call of a service (the classification, the    *)
(* chat completion, the retrieval with its summarizer) is made with no     *)
(* timeout argument and is repeated nowhere: the thread stands at the call *)
(* until the service returns or raises.  last holds the position of the    *)
(* thread (op), the service it waits for and in which step, its locals,    *)
(* and how the loop ended.                                                 *)
(***************************************************************************)
MaxWritten == 2

CallMessages == { <<"b","y","e">>, <<"h","e","l","l","o">>, <<"l","a","t","e","s","t"," ","n","e","w","s">> }
\* what the classifier says of each message: the configuration is the one of
\* InitCalls throughout
CallClassified == [message \in CallMessages |-> Classified(load_config(MissingFile), message)]
NewsOffer == <<"\n\nWould you like me to look into any specific aspect of this topic?">>
FollowUpOffer == <<"\n\nIs there anything specific about this topic you'd like me to explore further?">>

InitCalls ==
    /\ config_file = MissingFile
    /\ classifier = load_config(config_file)
    /\ max_context_messages = 8
    /\ conversations = <<>>
    /\ conversation_context = <<>>
    /\ current_conversations = <<>>
    /\ preferences = <<>>
    /\ clock = 0
    /\ last = [op |-> "poll", written |-> 0, incoming |-> None, last_seen_msg |-> None,
               last_msg |-> None, service |-> "", step |-> "", query |-> <<>>,
               offer |-> <<>>, plain |-> FALSE, response |-> None, message_type |-> "",
               ended |-> ""]

\* the thread stands at the call of a service
AtCall(at, service, step) == [at EXCEPT !.op = "call", !.service = service, !.step = step]
\* the response is made: the thread goes on to the first add_message
Responded(at, response, message_type, plain) ==
    [at EXCEPT !.op = "add_user", !.service = "", !.response = response,
               !.message_type = message_type, !.plain = plain]
\* an exception leaves handle_message and the loop, which catches none
Exited(at, why) == [at EXCEPT !.op = "exited", !.service = "", !.ended = why]

\* the contact writes a message: the browser shows it as the last incoming
ContactWrites ==
    /\ last.written < MaxWritten
    /\ \E message \in CallMessages :
         last' = [last EXCEPT !.written = @ + 1, !.incoming = message]
    /\ UNCHANGED <<config_file, classifier, max_context_messages, conversations,
                   conversation_context, current_conversations, preferences, clock>>

\* last_msg = get_last_incoming_message(driver) and the test of it
PollMessage ==
    /\ last.op = "poll"
    /\ last' = IF last.incoming # None /\ last.incoming # last.last_seen_msg
               THEN [last EXCEPT !.last_msg = last.incoming, !.op = "handle_message"]
               ELSE [last EXCEPT !.last_msg = last.incoming, !.op = "sleep"]
    /\ UNCHANGED <<config_file, classifier, max_context_messages, conversations,
                   conversation_context, current_conversations, preferences, clock>>

\* samba_general_chat(message) up to the chat completion: the joined
\* responses of several intents need no service
ToChat(at, c) ==
    IF handle_multiple_intents(c.intents, clock) \notin {None, <<>>}
    THEN Responded(at, handle_multiple_intents(c.intents, clock), "chat", FALSE)
    ELSE [AtCall(at, "chat", "route") EXCEPT !.message_type = "chat"]

\* the retrieval is called with the query
ToSearch(at, query, offer) ==
    [AtCall(at, "search", "route") EXCEPT !.query = query, !.offer = offer,
                                             !.message_type = "news"]

\* step 4 of handle_message, cache being the cache get_conversation_context
\* left and context what it returned
FollowUpStep(at, c, cache, context) ==
    IF /\ Get(cache, contact_name, <<>>) # <<>>
       /\ cache[contact_name][Len(cache[contact_name])].message_type = "news"
    THEN IF ~StartsWith(handle_follow_up_question(at.last_msg, context), <<"I","'","d"," ","b","e"," ","h","a","p","p","y">>)
         THEN ToSearch(at, handle_follow_up_question(at.last_msg, context), FollowUpOffer)
         ELSE Responded(at, handle_follow_up_question(at.last_msg, context), "news", FALSE)
    ELSE ToChat(at, c)

\* handle_message from its entry to its first call of a service, or to the
\* response when none is needed
RouteMessage ==
    /\ last.op = "handle_message"
    /\ \E c \in {CallClassified[last.last_msg]},
          order \in DescOrders(conversations, RowsOf(conversations, contact_name)) :
         IF is_conversation_ending(last.last_msg)
         THEN /\ last' = Responded(last, handle_conversation_ending(last.last_msg),
                                   "chat", TRUE)
              /\ UNCHANGED <<current_conversations, conversation_context, preferences>>
         ELSE IF c.intent \in special_intents
         THEN /\ last' = Responded(last, samba_general_chat(Begin(<<>>, <<>>, <<>>, <<>>, clock),
                                                            last.last_msg, c, Failed).response,
                                   "chat", TRUE)
              /\ UNCHANGED <<current_conversations, conversation_context, preferences>>
         ELSE /\ current_conversations' = Loaded(contact_name, order)
              /\ conversation_context' =
                     _get_conversation_summary(conversation_context, conversations,
                                               contact_name, clock, order).context
              /\ IF c.intent = "follow_up"
                 THEN /\ last' = FollowUpStep(last, c, Loaded(contact_name, order),
                                 get_conversation_context(Loaded(contact_name, order),
                                     contact_name, TRUE, max_context_messages,
                                     _get_conversation_summary(conversation_context,
                                         conversations, contact_name, clock, order).summary))
                      /\ UNCHANGED preferences
                 ELSE IF c.news
                 THEN /\ last' = ToSearch(last, last.last_msg, NewsOffer)
                      /\ preferences' = track_interest(preferences, contact_name,
                                                       last.last_msg)
                 ELSE /\ last' = AtCall(last, "categorize", "route")
                      /\ UNCHANGED preferences
    /\ UNCHANGED <<config_file, classifier, max_context_messages, conversations, clock>>

\* the classification service returns answer to is_news_query_llm, called
\* in step 5 or in log_conversation_metrics; its exception is caught nowhere
CategorizeReturns ==
    /\ last.op = "call" /\ last.service = "categorize"
    /\ \E answer \in Answers, c \in {CallClassified[last.last_msg]} :
         IF answer = Unreachable
         THEN /\ last' = Exited(last, "service")
              /\ UNCHANGED preferences
         ELSE IF last.step = "log"
         THEN /\ last' = [last EXCEPT !.op = "send", !.service = ""]
              /\ UNCHANGED preferences
         ELSE IF StartsWith(Upper(Strip(answer)), <<"Y", "E", "S">>)
         THEN /\ last' = ToSearch(last, last.last_msg, NewsOffer)
              /\ preferences' = track_interest(preferences, contact_name, last.last_msg)
         ELSE /\ last' = ToChat(last, c)
              /\ UNCHANGED preferences
    /\ UNCHANGED <<config_file, classifier, max_context_messages, conversations,
                   conversation_context, current_conversations, clock>>

\* client_samba.chat.completions.create returns or raises in
\* samba_general_chat, which catches nothing
ChatReturns ==
    /\ last.op = "call" /\ last.service = "chat"
    /\ \E chat \in Chats :
         last' = IF chat.ok THEN Responded(last, Strip(chat.content), "chat", FALSE)
                 ELSE Exited(last, "service")
    /\ UNCHANGED <<config_file, classifier, max_context_messages, conversations,
                   conversation_context, current_conversations, preferences, clock>>

\* search_and_summarize_time_aware returns: the vector search and the
\* summarizer have answered or failed, and it caught their exceptions
SearchReturns ==
    /\ last.op = "call" /\ last.service = "search"
    /\ \E news \in NewsEnvs :
         last' = Responded(last,
                           search_and_summarize_time_aware(last.query,
                               Epoch + (clock \div 24), news.samba_client, news.search,
                               news.completions) \o last.offer,
                           "news", FALSE)
    /\ UNCHANGED <<config_file, classifier, max_context_messages, conversations,
                   conversation_context, current_conversations, preferences, clock>>

\* self.memory.add_message(contact_name, sender, content, message_type): the
\* cache first, then the row, whose write may fail
Added(sender, content, db_ok, next) ==
    /\ current_conversations' =
           add_message(current_conversations, contact_name,
                       Message(clock, sender, content, last.message_type),
                       max_context_messages)
    /\ conversations' =
           IF db_ok THEN _save_to_db(conversations, contact_name,
                                     Message(clock, sender, content, last.message_type))
           ELSE conversations
    /\ clock' = clock + 1
    /\ last' = IF db_ok
               THEN [last EXCEPT !.op = next,
                                 !.response = IF sender = "bot" THEN content ELSE @]
               ELSE Exited(last, "store")
    /\ UNCHANGED <<config_file, classifier, max_context_messages, conversation_context,
                   preferences>>

\* the user's message is stored
StoreUserMessage ==
    /\ last.op = "add_user"
    /\ \E db_ok \in BOOLEAN : Added("user", last.last_msg, db_ok, "add_bot")

\* the response is stored, in step 7 after enhance_response_quality
StoreBotResponse ==
    /\ last.op = "add_bot"
    /\ \E db_ok \in BOOLEAN, random \in RandomValues :
         Added("bot",
               IF last.plain THEN last.response
               ELSE enhance_response_quality(last.response, last.message_type, random),
               db_ok, "log")

\* log_conversation_metrics: is_news_query_llm up to its call of the
\* classification service, or the return of handle_message without it
LogConversationMetrics ==
    /\ last.op = "log"
    /\ \E c \in {CallClassified[last.last_msg]} :
         last' = IF c.intent = "capability_question" \/ c.news
                 THEN [last EXCEPT !.op = "send"]
                 ELSE AtCall(last, "categorize", "log")
    /\ UNCHANGED <<config_file, classifier, max_context_messages, conversations,
                   conversation_context, current_conversations, preferences, clock>>

\* send_whatsapp_message(driver, remove_non_bmp(response)) and
\* last_seen_msg = last_msg
SendResponse ==
    /\ last.op = "send"
    /\ last' = [last EXCEPT !.op = "sleep", !.last_seen_msg = last.last_msg]
    /\ UNCHANGED <<config_file, classifier, max_context_messages, conversations,
                   conversation_context, current_conversations, preferences, clock>>

\* time.sleep(5)
SleepFive ==
    /\ last.op = "sleep"
    /\ last' = [last EXCEPT !.op = "poll"]
    /\ UNCHANGED <<config_file, classifier, max_context_messages, conversations,
                   conversation_context, current_conversations, preferences, clock>>

\* the steps the thread takes by itself
ThreadStep == PollMessage \/ RouteMessage \/ StoreUserMessage \/ StoreBotResponse
              \/ LogConversationMetrics \/ SendResponse \/ SleepFive
\* the steps that are a service's to take
ServiceReturns == CategorizeReturns \/ ChatReturns \/ SearchReturns

NextCalls == ContactWrites \/ ThreadStep \/ ServiceReturns

SpecCalls == InitCalls /\ [][NextCalls]_vars

\* the thread runs whenever it can; nothing makes a service return
SpecCallsFair == SpecCalls /\ WF_vars(ThreadStep)

\* handle_message has handed its response to the loop, or a failed write of
\* the store has ended it
Answered == last.op = "send" \/ (last.op = "exited" /\ last.ended = "store")

\* C26: every handle_message ends with a response (a failure of the store
\* aside), also when a service it calls never answers: a timeout bounds
\* each call, after which the fallback response is used.
C26_AlwaysAnswers == (last.op = "handle_message") ~> Answered

\* C12: a failure of the vector search, the summarizer, the chat completion
\* or the classification service during handle_message never leaves
\* handle_message as an exception: it still returns a response text.
C12_FailuresNeverPropagate ==
    last.op = "handle_message" => (~last.raised /\ last.response # None)

\* C13: when the durable write inside add_message fails, the cache is left
\* exactly as it was before the call: the message that was not stored is
\* not in the cache and the cache has not been trimmed.
C13_FailedWriteLeavesCache ==
    [][(last'.op = "add_message" /\ last'.raised) =>
           current_conversations' = current_conversations]_vars

(***************************************************************************)
(* Claims about parse_time_expression, under SpecSearch                    *)
(***************************************************************************)
\* the entry of time_patterns that the loop stops at for the last query (0:
\* no relative phrase matches)
RelativeOfLast == FirstTimePattern(Lower(last.q.text), time_patterns(last.now), 1)
\* the absolute-range pattern is found in the query as given, lowered
AbsoluteInLast == Search(date_range_pattern, Lower(last.q.text), FALSE).ok

\* C15: the first relative phrase that matches, in declared order, decides
\* the range: the absolute range is tried only when no relative phrase
\* matched, so a query that holds both gets the range of the relative phrase.
C15_RelativePhraseDecides ==
    (last.op = "parse" /\ RelativeOfLast > 0) =>
        /\ last.result.start_date = StrfYmd(time_patterns(last.now)[RelativeOfLast].start)
        /\ last.result.end_date = StrfYmd(time_patterns(last.now)[RelativeOfLast].end)

\* C16: when neither a relative phrase nor the absolute range matches, no
\* start and no end date are returned and the query is returned exactly as
\* it was given, letter case and spacing included.
C16_NoMatchReturnsQuery ==
    (last.op = "parse" /\ RelativeOfLast = 0 /\ ~AbsoluteInLast) =>
        /\ last.result.start_date = None
        /\ last.result.end_date = None
        /\ last.result.cleaned_query = last.q.text

\* C17: every range parse_time_expression returns has start <= end, for
\* every query and every reference date, the absolute ranges included.
C17_StartNotAfterEnd ==
    (last.op = "parse" /\ last.result.start_date # None) =>
        ~TextLess(last.result.end_date, last.result.start_date)

(***************************************************************************)
(* Claims about the routes of handle_message, under SpecBot                *)
(***************************************************************************)
\* the fixed response samba_general_chat has for an intent
FixedResponse(intent, message, now) ==
    GeneralChat(Begin(<<>>, <<>>, <<>>, <<>>, now), message, [intent |-> intent],
                Reply, None).response

\* the last handle_message called the service named
CalledTo(to) == \E k \in DOMAIN last.calls : last.calls[k].to = to

\* C18: for a message without ending phrase whose winning intent is
\* date_request, name_request, capability_question or correction,
\* handle_message returns the fixed response of that intent, stores the
\* user's message and the response with type chat, and makes no retrieval
\* and no chat completion.
C18_SpecialIntentFixedResponse ==
    (/\ last.op = "handle_message"
     /\ ~is_conversation_ending(last.message)
     /\ last.intent \in special_intents) =>
        /\ ~last.raised
        /\ last.response = FixedResponse(last.intent, last.message, last.now)
        /\ Len(RowsAdded) = 2
        /\ IsRow(RowsAdded[1], "user", last.message, "chat")
        /\ IsRow(RowsAdded[2], "bot", last.response, "chat")
        /\ ~CalledTo("search") /\ ~CalledTo("chat")

\* the type of the message of the contact stored last before the last
\* handle_message ("" when the contact had none)
PrecedingRows == {i \in 1..last.before : conversations[i].contact_name = last.contact_name}
PrecedingType ==
    IF PrecedingRows = {} THEN ""
    ELSE conversations[CHOOSE i \in PrecedingRows : \A j \in PrecedingRows : j <= i].message_type
\* the words of the last message and the text after its first continuation
\* marker (empty without a marker or without text after it)
WordsOfLast == Split(Lower(last.message))
TopicOfLast ==
    IF FirstIndicator(WordsOfLast) = 0 THEN <<>>
    ELSE Join(<<" ">>, SubSeq(WordsOfLast, FirstIndicator(WordsOfLast) + 1, Len(WordsOfLast)))
FollowUpHandled ==
    /\ last.op = "handle_message"
    /\ ~is_conversation_ending(last.message)
    /\ last.intent = "follow_up"
ClarifyingPrompt ==
    <<"I","'","d"," ","b","e"," ","h","a","p","p","y">> \o <<" to provide more details. Could you specify what aspect you'd like me to elaborate on?">>

\* C19: for a follow_up message after a news-typed message, when no topic
\* can be taken from it, handle_message returns the fixed clarifying
\* prompt, makes no retrieval, and stores the user's message and the
\* response with type chat, the response having no source-attribution line.
C19_ClarifyingPromptIsChat ==
    (FollowUpHandled /\ PrecedingType = "news" /\ TopicOfLast = <<>>) =>
        /\ ~last.raised
        /\ last.response \in {ClarifyingPrompt, ClarifyingPrompt \o SmileSuffix}
        /\ ~CalledTo("search")
        /\ Len(RowsAdded) = 2
        /\ IsRow(RowsAdded[1], "user", last.message, "chat")
        /\ IsRow(RowsAdded[2], "bot", last.response, "chat")

\* C20: for a follow_up message retrieval is made if and only if the message
\* of the contact stored last has type news and the message has text after
\* its first continuation marker; the query is then 'Kenya ' and that text,
\* and the exchange is stored as news.  When the message stored last is not
\* news the message goes to the chat completion and is stored as chat.
C20_FollowUpRetrieval ==
    FollowUpHandled =>
        /\ CalledTo("search") <=> (PrecedingType = "news" /\ TopicOfLast # <<>>)
        /\ CalledTo("search") =>
              /\ \A k \in DOMAIN last.calls :
                    last.calls[k].to = "search" => last.calls[k].arg = <<"K","e","n","y","a"," ">> \o TopicOfLast
              /\ Len(RowsAdded) = 2
              /\ IsRow(RowsAdded[1], "user", last.message, "news")
              /\ RowsAdded[2].sender = "bot" /\ RowsAdded[2].message_type = "news"
        /\ PrecedingType # "news" =>
              /\ CalledTo("chat")
              /\ Len(RowsAdded) = 2
              /\ IsRow(RowsAdded[1], "user", last.message, "chat")
              /\ RowsAdded[2].sender = "bot" /\ RowsAdded[2].message_type = "chat"

\* C21: whenever handle_message sends a message to the chat branch, the
\* chat completion is called with the contact's bounded context (the system
\* turn and the up to W last turns) as its prompt, not with the message
\* alone.
C21_ChatGetsContext ==
    last.op = "handle_message" =>
        \A k \in DOMAIN last.calls :
            last.calls[k].to = "chat" =>
                (last.calls[k].arg # last.message /\ last.calls[k].arg = last.context)

\* the summary C22 allows for a result with content: what the summarizer
\* returned, or the first sentences of the content when there is no
\* summarizer or its call failed
AllowedSummary(result, samba_client, completion) ==
    IF result.content = <<>> THEN <<"[No content available]">>
    ELSE IF samba_client /\ completion.ok THEN Strip(completion.content)
    ELSE FallbackSummary(result.content)

\* C22: for every hit with content the summary in the formatted result is
\* the summarizer's output or, when the summarizer is not there or its call
\* fails, the first sentences of the content; an error text of the
\* summarizer is never the summary.
C22_SummaryOrTruncation ==
    (last.op = "search" /\ search_articles(last.env.search) # <<>>) =>
        /\ last.result =
              Join(<<"\n">>,
                   << <<"Search Results for: '">>
                        \o parse_time_expression(last.q.text, last.now).cleaned_query \o <<"'">>
                        \o TimeInfo(parse_time_expression(last.q.text, last.now).start_date,
                                    parse_time_expression(last.q.text, last.now).end_date)
                        \o <<"\n", "============================================================">> >>
                   \o [i \in 1..Len(last.env.search.hits) |->
                          ResultText(i, last.env.search.hits[i],
                                     AllowedSummary(last.env.search.hits[i],
                                                    last.env.samba_client,
                                                    last.env.completions[i]))])
        /\ \A k \in 1..Len(last.result) : last.result[k] # "[SambaNova API error: "

\* C24: every handle_message that returns emits exactly one metrics record,
\* and the message type of the record is the type under which the user's
\* message and the response of that call were stored.
C24_MetricsTypeIsStoredType ==
    (last.op = "handle_message" /\ ~last.raised) =>
        /\ Len(last.metrics) = 1
        /\ Len(RowsAdded) = 2
        /\ last.metrics[1].message_type = RowsAdded[1].message_type
        /\ last.metrics[1].message_type = RowsAdded[2].message_type

\* the last message was resolved at the ending check, at the special-intent
\* step, or at the follow-up step (a follow_up after news with no topic)
LexicallyResolved ==
    \/ is_conversation_ending(last.message)
    \/ last.intent \in special_intents
    \/ (last.intent = "follow_up" /\ PrecedingType = "news" /\ TopicOfLast = <<>>)

\* what the caller and the store see of an outcome: whether the call
\* returned, the response, the rows stored, and the services called
OutcomeOf(b) ==
    [raised |-> b.raised,
     response |-> IF b.raised THEN None ELSE b.response,
     rows |-> b.rows,
     route |-> [k \in DOMAIN b.calls |-> b.calls[k].to]]

\* the outcomes of handle_message(contact, message) in the state
\* as it is, over everything the services may answer
OutcomesNow(contact, message) ==
    UNION {handle_message(Begin(current_conversations, conversations,
                                conversation_context, preferences, clock),
                          contact, message, Classified(classifier, message),
                          max_context_messages,
                          Loaded(contact, order),
                          _get_conversation_summary(conversation_context, conversations,
                                                    contact, clock, order)) :
              order \in DescOrders(conversations, RowsOf(conversations, contact))}

\* C25: for a message resolved at the ending check, the special-intent step
\* or the follow-up step, whether handle_message returns, its response, the
\* rows it stores and the services it calls are the same whatever the LLM
\* answers and whether or not it can be reached, and on the ending and
\* special-intent routes the classification service is not called.
C25_LexicalRoutesDeterministic ==
    [][(last'.op = "handle_message" /\ LexicallyResolved') =>
          /\ \A b \in OutcomesNow(last'.contact_name, last'.message) :
                OutcomeOf(b) = [raised |-> last'.raised, response |-> last'.response,
                                rows |-> conversations',
                                route |-> [k \in DOMAIN last'.calls |-> last'.calls[k].to]]
          /\ (is_conversation_ending(last'.message) \/ last'.intent \in special_intents)
                => ~CalledTo("categorize")']_vars

\* ConversationMemory.get_conversation_stats(contact_name): the counts and
\* the least and the greatest timestamp of the contact's rows
get_conversation_stats(rows, contact) ==
    [total_messages |-> Cardinality(RowsOf(rows, contact)),
     user_messages  |-> Cardinality({i \in RowsOf(rows, contact) : rows[i].sender = "user"}),
     bot_messages   |-> Cardinality({i \in RowsOf(rows, contact) : rows[i].sender = "bot"}),
     news_queries   |-> Cardinality({i \in RowsOf(rows, contact) :
                                        rows[i].message_type = "news"}),
     first_message  |-> IF RowsOf(rows, contact) = {} THEN None
                        ELSE rows[CHOOSE i \in RowsOf(rows, contact) :
                                     \A j \in RowsOf(rows, contact) :
                                        ~TextLess(rows[j].timestamp, rows[i].timestamp)].timestamp,
     last_message   |-> IF RowsOf(rows, contact) = {} THEN None
                        ELSE rows[CHOOSE i \in RowsOf(rows, contact) :
                                     \A j \in RowsOf(rows, contact) :
                                        ~TextLess(rows[i].timestamp, rows[j].timestamp)].timestamp]

\* the rows of the contact in the order they were inserted
LogOf(contact) == SelectSeq(conversations, LAMBDA row : row.contact_name = contact)

\* C27: when every handle_message so far has returned, the log of the
\* contact is made of adjacent pairs, the user's message and then the
\* response of the same call, both of the same type; get_conversation_stats
\* reports as many user messages as bot messages and twice as many messages
\* as calls handled.
C27_LogIsPairs ==
    (last.op \in {"handle_message", "restart"} /\ last.all_returned) =>
        /\ Len(LogOf(last.contact_name)) = 2 * last.returned
        /\ \A k \in 1..last.returned :
              /\ LogOf(last.contact_name)[2 * k - 1].sender = "user"
              /\ LogOf(last.contact_name)[2 * k].sender = "bot"
              /\ LogOf(last.contact_name)[2 * k - 1].message_type
                    = LogOf(last.contact_name)[2 * k].message_type
        /\ last.op = "handle_message" =>
              /\ Len(RowsAdded) = 2
              /\ IsRow(RowsAdded[1], "user", last.message, last.message_type)
              /\ IsRow(RowsAdded[2], "bot", last.response, last.message_type)
        /\ get_conversation_stats(conversations, last.contact_name).user_messages
              = get_conversation_stats(conversations, last.contact_name).bot_messages
        /\ get_conversation_stats(conversations, last.contact_name).total_messages
              = 2 * last.returned

\* two calls returned, one answered as news and then one answered as chat
C27_Witness ==
    /\ last.op = "handle_message" /\ last.all_returned /\ last.returned = 2
    /\ LogOf(last.contact_name)[1].message_type = "news"
    /\ LogOf(last.contact_name)[3].message_type = "chat"
    /\ get_conversation_stats(conversations, last.contact_name).total_messages = 4

\* what C28 says of the two results for one message: all is the list of
\* classify_multiple_intents, result what classify_intent returned
Agree(cfg, message_lower, result, all) ==
    /\ (result.intent = NoIntent) <=> (all = <<>>)
    /\ all # <<>> => result = all[1]
    /\ \A k \in 1..(Len(all) - 1) : FLeq(all[k + 1].score, all[k].score)
    /\ \A k \in 1..Len(all) :
          \E i \in 1..Len(cfg.intents) :
             /\ cfg.intents[i].name = all[k].intent
             /\ all[k].score = _calculate_intent_score(cfg.settings, message_lower,
                                                       cfg.intents[i].config)
             /\ FAtLeast(all[k].score, ThresholdOf(cfg.settings, cfg.intents[i].config))

\* C28: for every message and every configuration with thresholds in [0,1]
\* classify_intent returns no intent exactly when classify_multiple_intents
\* returns an empty list, and otherwise the first entry of that list, which
\* is sorted by descending confidence and holds only intents whose score
\* reaches their own threshold.
C28_ClassifyAgrees ==
    last.op = "classify_intent" =>
        Agree(last.call.config, Strip(Lower(last.call.message)), last.call.result,
              classify_multiple_intents(last.call.config, last.call.message))

=============================================================================
